---- MODULE Spec2Model ----
(***************************************************************************)
(* Verification model of terranovate's dependency-update core:             *)
(*   - internal/cache: RepositoryCache (RWMutex-guarded TTL map, optional  *)
(*     asynchronous persistence to repository-cache.json)                  *)
(*   - internal/version: Checker (shouldUpdate, detectUpdateType,          *)
(*     checkRegistryModule, checkGitModule, checkProvider)                 *)
(* Time is a discrete clock `now`; a duration is a number of clock units.  *)
(* sync.RWMutex is modelled as a write flag plus a reader count (writer    *)
(* preference of the Go runtime is not modelled: the model admits every    *)
(* schedule the runtime admits, and possibly more).                        *)
(***************************************************************************)
EXTENDS Integers, Sequences, FiniteSets, TLC

\* ------------------------------------------------------------------ bounds
MaxTime == 2
MaxSaves == 2
MaxNum == 1
MaxList == 2
MaxBatch == 2
MaxPlan == 2

\* 24 * time.Hour, in clock units
CheckerTTL == 1

\* ---------------------------------------------------------- input universes
Repos == {"r1", "r2"}
TagLists == {<<"v1.0.0">>, <<"v2.0.0">>}
Callers == {"c1", "c2"}
TTLs == {1, 2}
DiskDir == "dir"

VARIABLES
  memoryOnly,   \* RepositoryCache.memoryOnly
  cacheDir,     \* RepositoryCache.cacheDir ("" for a memory-only cache)
  ttl,          \* RepositoryCache.ttl
  entries,      \* RepositoryCache.entries: repo -> CacheEntry (partial function)
  rw,           \* RepositoryCache.mu: [w: write-locked, r: number of read locks held]
  files,        \* directory -> state of <directory>/repository-cache.json
  now,          \* the clock read by time.Now / time.Since
  pc,           \* per caller: the cache method it is executing and how far it got
  ret,          \* what the most recently completed Get returned
  savesSpawned, \* save goroutines started by Set that have not taken the read lock yet
  savesLocked,  \* save goroutines holding the read lock (serialising / writing)
  fsOps,        \* history: this cache object has made a storage call (mkdir/read/write/remove)
  lastSet,      \* history: repo -> tags and time of the most recent Set since the last Clear
  cleared,      \* history: Clear returned nil and no Set has run since
  checker,      \* Checker.skipPrerelease / patchOnly / minorOnly
  vcur,         \* argument `current` of shouldUpdate / detectUpdateType, as written
  vlat,         \* argument `latest` of shouldUpdate / detectUpdateType, as written
  vout,         \* what shouldUpdate / detectUpdateType returned
  res,          \* the last dependency resolution: its input, the upstream answer, its result
  prev,         \* the resolution before a repeated one
  batch,        \* one call of Check: its input, loop position, per-module log, updates, return
  schema,       \* compareSchemaStructures: the two snapshots and the returned comparison
  plan,         \* AnalyzeResourceChanges: the plan records and the returned analysis
  pr            \* the pr command's loop body: the update being processed and how far

cacheVars == <<memoryOnly, cacheDir, ttl, entries, rw, files, now, pc, ret,
               savesSpawned, savesLocked, fsOps, lastSet, cleared>>

verVars == <<checker, vcur, vlat, vout, res>>

auxVars == <<prev, batch, schema, plan, pr>>

vars == <<cacheVars, verVars, auxVars>>

\* ------------------------------------------------------------- cache: data
EmptyMap == [k \in {} |-> 0]

\* CacheEntry{Repository, Tags, CachedAt, TTL}
CacheEntry(repo, tags, at, t) ==
  [Repository |-> repo, Tags |-> tags, CachedAt |-> at, TTL |-> t]

AbsentFile == [exists |-> FALSE, corrupt |-> FALSE, data |-> EmptyMap]
CorruptFile == [exists |-> TRUE, corrupt |-> TRUE, data |-> EmptyMap]
JSONFile(d) == [exists |-> TRUE, corrupt |-> FALSE, data |-> d]

\* filepath.Join(c.cacheDir, "repository-cache.json"), identified by its directory
cacheFile == cacheDir

\* json.MarshalIndent(c.entries): one JSON object per map key, fields named by the json tags
MarshalIndent(m) ==
  [k \in DOMAIN m |-> [repository |-> m[k].Repository, tags |-> m[k].Tags,
                       cached_at |-> m[k].CachedAt, ttl |-> m[k].TTL]]

\* json.Unmarshal(data, &entries)
Unmarshal(d) ==
  [k \in DOMAIN d |-> CacheEntry(d[k].repository, d[k].tags, d[k].cached_at, d[k].ttl)]

\* time.Since(entry.CachedAt) > entry.TTL
Expired(entry, t) == t - entry.CachedAt > entry.TTL

\* Get without the expiry test
Get_NoExpiry(m, repo, t) ==
  IF repo \notin DOMAIN m THEN [tags |-> << >>, found |-> FALSE]
  ELSE [tags |-> m[repo].Tags, found |-> TRUE]

\* RepositoryCache.Get, inside the read lock: (tags, found); nil is << >>
Get(m, repo, t) ==
  IF repo \notin DOMAIN m THEN [tags |-> << >>, found |-> FALSE]
  ELSE IF Expired(m[repo], t) THEN [tags |-> << >>, found |-> FALSE]
  ELSE [tags |-> m[repo].Tags, found |-> TRUE]

\* Set that keeps only the first tag
SetEntry_FirstTagOnly(m, repo, tags, t, cttl) ==
  [k \in DOMAIN m \cup {repo} |->
     IF k = repo THEN CacheEntry(repo, SubSeq(tags, 1, 1), t, cttl) ELSE m[k]]

\* RepositoryCache.Set, inside the write lock: c.entries[repo] = &CacheEntry{...}
SetEntry(m, repo, tags, t, cttl) ==
  [k \in DOMAIN m \cup {repo} |->
     IF k = repo THEN CacheEntry(repo, tags, t, cttl) ELSE m[k]]

\* load without the expiry filter
load_KeepAll(file, t) ==
  IF ~file.exists \/ file.corrupt THEN EmptyMap ELSE Unmarshal(file.data)

\* RepositoryCache.load: keep the stored entries with time.Since(CachedAt) <= TTL
load(file, t) ==
  IF ~file.exists \/ file.corrupt THEN EmptyMap
  ELSE LET all == Unmarshal(file.data)
           keep == {k \in DOMAIN all : t - all[k].CachedAt <= all[k].TTL}
       IN [k \in keep |-> all[k]]

\* ---------------------------------------------------- cache: callers' state
\* pc[t]: "idle", or the method whose critical section caller t is inside
Methods == {"Get", "Set", "Clear", "Stats"}

\* (nil, false)
NoRet == [tags |-> << >>, found |-> FALSE]

PendingSaves == savesSpawned + savesLocked

\* ----------------------------------------------------- version: text values
\* A version-like string as the program reads it, by its parts:
\*   lit  - a fixed phrase that is no version ("latest", "default branch"), else ""
\*   op   - a leading constraint operator with its blank ("~> ", ">= ", ...), else ""
\*   v    - the text after the operator starts with the letter v
\*   segs - the dot-separated numbers, as written (<< >>: there are none)
\*   pre  - the prerelease word after "-", else ""
\*   junk - the text is neither a fixed phrase nor shaped like a version ("main")
\* The empty string has every part empty.
EmptyText ==
  [lit |-> "", op |-> "", v |-> FALSE, segs |-> << >>, pre |-> "", junk |-> FALSE]

Lit(x) == [EmptyText EXCEPT !.lit = x]
JunkText == [EmptyText EXCEPT !.junk = TRUE]
VerText(segs, pre) == [EmptyText EXCEPT !.segs = segs, !.pre = pre]
VTag(segs, pre) == [EmptyText EXCEPT !.v = TRUE, !.segs = segs, !.pre = pre]
Constraint(op, segs) == [EmptyText EXCEPT !.op = op, !.segs = segs]

\* Checker{skipPrerelease, patchOnly, minorOnly} of a checker that has not been configured
NoFlags == [skipPrerelease |-> FALSE, patchOnly |-> FALSE, minorOnly |-> FALSE]

\* nothing returned yet by shouldUpdate / detectUpdateType / shouldDisplayUpdate
NoOut == [update |-> "none", type |-> "none", filter |-> "none", shown |-> "none"]

\* the zero UpdateInfo; UpdateType "" is the zero value of the string type
EmptyURL == [site |-> "", path |-> << >>, version |-> EmptyText]

ZeroInfo ==
  [CurrentVersion |-> EmptyText, LatestVersion |-> EmptyText, IsOutdated |-> FALSE,
   UpdateType |-> "", HasBreakingChange |-> FALSE, BreakingChangeDetails |-> << >>,
   ChangelogURL |-> EmptyURL]

\* no resolution has run
NoResp == [status |-> "none", versions |-> << >>]

NoSource == [parts |-> << >>, host |-> "", owner |-> "", repo |-> "", ref |-> EmptyText]

NoRes ==
  [kind |-> "none", Source |-> NoSource, Version |-> EmptyText,
   resp |-> NoResp,
   remote |-> FALSE, err |-> FALSE, info |-> ZeroInfo]

\* no Check call in progress or made
NoBatch ==
  [fn |-> "none", modules |-> << >>, ignoreModules |-> {}, ai |-> FALSE, i |-> 1,
   log |-> << >>, updates |-> << >>, done |-> FALSE, err |-> "nil"]

\* compareSchemaStructures has not been called
NoSchema == [called |-> FALSE]

\* AnalyzeResourceChanges has not been called
NoPlan == [called |-> FALSE]

\* no update is being processed
NoPR == [stage |-> "none"]

\* nothing but the cache and single resolutions is in use
AuxIdle ==
  /\ prev = NoRes
  /\ batch = NoBatch
  /\ schema = NoSchema
  /\ plan = NoPlan
  /\ pr = NoPR

\* the Checker is not in use
VerIdle ==
  /\ AuxIdle
  /\ checker = NoFlags
  /\ vcur = EmptyText
  /\ vlat = EmptyText
  /\ vout = NoOut
  /\ res = NoRes

\* ------------------------------------------------------------ cache: Init
\* NewMemoryOnly(ttl), or New(cacheDir, ttl) on a directory without a cache file
CacheInit ==
  /\ memoryOnly \in BOOLEAN
  /\ ttl \in TTLs
  /\ cacheDir = IF memoryOnly THEN "" ELSE DiskDir
  /\ entries = EmptyMap
  /\ rw = [w |-> FALSE, r |-> 0]
  /\ files = [d \in {"", DiskDir} |-> AbsentFile]
  /\ now = 0
  /\ pc = [t \in Callers |-> "idle"]
  /\ ret = NoRet
  /\ savesSpawned = 0
  /\ savesLocked = 0
  /\ fsOps = ~memoryOnly
  /\ lastSet = EmptyMap
  /\ cleared = FALSE

\* a cache object on its own: no Checker is involved
Init == CacheInit /\ VerIdle

\* ---------------------------------------------------------- cache: actions
\* RLock that does not wait for the writer to leave
RLock_IgnoreWriter(t, op) ==
  /\ pc[t] = "idle"
  /\ op \in {"Get", "Stats"}
  /\ rw' = [rw EXCEPT !.r = @ + 1]
  /\ pc' = [pc EXCEPT ![t] = op]
  /\ UNCHANGED <<verVars, auxVars>>
  /\ UNCHANGED <<memoryOnly, cacheDir, ttl, entries, files, now, ret,
                 savesSpawned, savesLocked, fsOps, lastSet, cleared>>

\* Get / Stats called: c.mu.RLock() returns
RLock(t, op) ==
  /\ pc[t] = "idle"
  /\ op \in {"Get", "Stats"}
  /\ ~rw.w
  /\ rw' = [rw EXCEPT !.r = @ + 1]
  /\ pc' = [pc EXCEPT ![t] = op]
  /\ UNCHANGED <<verVars, auxVars>>
  /\ UNCHANGED <<memoryOnly, cacheDir, ttl, entries, files, now, ret,
                 savesSpawned, savesLocked, fsOps, lastSet, cleared>>

\* Set / Clear called: c.mu.Lock() returns
Lock(t, op) ==
  /\ pc[t] = "idle"
  /\ op \in {"Set", "Clear"}
  /\ op = "Set" => (memoryOnly \/ PendingSaves < MaxSaves)
  /\ ~rw.w
  /\ rw.r = 0
  /\ rw' = [rw EXCEPT !.w = TRUE]
  /\ pc' = [pc EXCEPT ![t] = op]
  /\ UNCHANGED <<verVars, auxVars>>
  /\ UNCHANGED <<memoryOnly, cacheDir, ttl, entries, files, now, ret,
                 savesSpawned, savesLocked, fsOps, lastSet, cleared>>

\* body of Get(repo) and its deferred RUnlock
GetReturn(t, repo) ==
  /\ pc[t] = "Get"
  /\ ret' = Get(entries, repo, now)
  /\ rw' = [rw EXCEPT !.r = @ - 1]
  /\ pc' = [pc EXCEPT ![t] = "idle"]
  /\ UNCHANGED <<verVars, auxVars>>
  /\ UNCHANGED <<memoryOnly, cacheDir, ttl, entries, files, now,
                 savesSpawned, savesLocked, fsOps, lastSet, cleared>>

\* Set that runs save() itself, after its own unlock, before returning
SetReturn_SyncSave(t, repo, tags) ==
  /\ pc[t] = "Set"
  /\ entries' = SetEntry(entries, repo, tags, now, ttl)
  /\ files' = IF memoryOnly THEN files
              ELSE [files EXCEPT ![cacheFile] =
                      JSONFile(MarshalIndent(SetEntry(entries, repo, tags, now, ttl)))]
  /\ fsOps' = ~memoryOnly
  /\ rw' = [rw EXCEPT !.w = FALSE]
  /\ pc' = [pc EXCEPT ![t] = "idle"]
  /\ lastSet' = [k \in DOMAIN lastSet \cup {repo} |->
                   IF k = repo THEN [tags |-> tags, at |-> now] ELSE lastSet[k]]
  /\ cleared' = FALSE
  /\ UNCHANGED <<verVars, auxVars>>
  /\ UNCHANGED <<memoryOnly, cacheDir, ttl, now, ret, savesSpawned, savesLocked>>

\* body of Set(repo, tags) (store the entry, start the save goroutine) and its
\* deferred Unlock
SetReturn(t, repo, tags) ==
  /\ pc[t] = "Set"
  /\ entries' = SetEntry(entries, repo, tags, now, ttl)
  /\ savesSpawned' = IF memoryOnly THEN savesSpawned ELSE savesSpawned + 1
  /\ rw' = [rw EXCEPT !.w = FALSE]
  /\ pc' = [pc EXCEPT ![t] = "idle"]
  /\ lastSet' = [k \in DOMAIN lastSet \cup {repo} |->
                   IF k = repo THEN [tags |-> tags, at |-> now] ELSE lastSet[k]]
  /\ cleared' = FALSE
  /\ UNCHANGED <<verVars, auxVars>>
  /\ UNCHANGED <<memoryOnly, cacheDir, ttl, files, now, ret, savesLocked, fsOps>>

\* body of Clear (drop the map, os.Remove the cache file) and its deferred Unlock;
\* removeFails: os.Remove returns an error other than "not exist"
ClearReturn(t, removeFails) ==
  /\ pc[t] = "Clear"
  /\ removeFails => files[cacheFile].exists
  /\ entries' = EmptyMap
  /\ files' = IF removeFails THEN files ELSE [files EXCEPT ![cacheFile] = AbsentFile]
  /\ fsOps' = TRUE
  /\ rw' = [rw EXCEPT !.w = FALSE]
  /\ pc' = [pc EXCEPT ![t] = "idle"]
  /\ lastSet' = EmptyMap
  /\ cleared' = ~removeFails
  /\ UNCHANGED <<verVars, auxVars>>
  /\ UNCHANGED <<memoryOnly, cacheDir, ttl, now, ret, savesSpawned, savesLocked>>

\* body of Stats and its deferred RUnlock
StatsReturn(t) ==
  /\ pc[t] = "Stats"
  /\ rw' = [rw EXCEPT !.r = @ - 1]
  /\ pc' = [pc EXCEPT ![t] = "idle"]
  /\ UNCHANGED <<verVars, auxVars>>
  /\ UNCHANGED <<memoryOnly, cacheDir, ttl, entries, files, now, ret,
                 savesSpawned, savesLocked, fsOps, lastSet, cleared>>

\* save goroutine: c.mu.RLock() returns
SaveRLock ==
  /\ savesSpawned > 0
  /\ ~rw.w
  /\ rw' = [rw EXCEPT !.r = @ + 1]
  /\ savesSpawned' = savesSpawned - 1
  /\ savesLocked' = savesLocked + 1
  /\ UNCHANGED <<verVars, auxVars>>
  /\ UNCHANGED <<memoryOnly, cacheDir, ttl, entries, files, now, pc, ret,
                 fsOps, lastSet, cleared>>

\* save that opens the file with O_EXCL: an existing file is never rewritten
SaveWrite_Excl(outcome) ==
  /\ savesLocked > 0
  /\ files' = [files EXCEPT ![cacheFile] =
                 IF outcome = "ok" /\ ~@.exists THEN JSONFile(MarshalIndent(entries)) ELSE @]
  /\ fsOps' = TRUE
  /\ rw' = [rw EXCEPT !.r = @ - 1]
  /\ savesLocked' = savesLocked - 1
  /\ UNCHANGED <<verVars, auxVars>>
  /\ UNCHANGED <<memoryOnly, cacheDir, ttl, entries, now, pc, ret,
                 savesSpawned, lastSet, cleared>>

\* save goroutine: MarshalIndent, os.WriteFile and the deferred RUnlock;
\* outcome "ok", "openfail" (file untouched) or "writefail" (file truncated);
\* the error is only logged by the goroutine started in Set
SaveWrite(outcome) ==
  /\ savesLocked > 0
  /\ files' = [files EXCEPT ![cacheFile] =
                 CASE outcome = "ok" -> JSONFile(MarshalIndent(entries))
                   [] outcome = "openfail" -> @
                   [] outcome = "writefail" -> CorruptFile]
  /\ fsOps' = TRUE
  /\ rw' = [rw EXCEPT !.r = @ - 1]
  /\ savesLocked' = savesLocked - 1
  /\ UNCHANGED <<verVars, auxVars>>
  /\ UNCHANGED <<memoryOnly, cacheDir, ttl, entries, now, pc, ret,
                 savesSpawned, lastSet, cleared>>

\* the clock advances
Tick ==
  /\ now < MaxTime
  /\ now' = now + 1
  /\ UNCHANGED <<verVars, auxVars>>
  /\ UNCHANGED <<memoryOnly, cacheDir, ttl, entries, rw, files, pc, ret,
                 savesSpawned, savesLocked, fsOps, lastSet, cleared>>

\* New(cacheDir, newTtl) on the same directory once the previous cache object is
\* quiescent: a fresh object whose entries come from load(); readFails: os.ReadFile
\* returns an error other than "not exist", which newCache only logs
Restart(newTtl, readFails) ==
  /\ ~memoryOnly
  /\ \A t \in Callers : pc[t] = "idle"
  /\ PendingSaves = 0
  /\ ttl' = newTtl
  /\ entries' = IF readFails THEN EmptyMap ELSE load(files[cacheFile], now)
  /\ fsOps' = TRUE
  /\ ret' = NoRet
  /\ lastSet' = EmptyMap
  /\ cleared' = FALSE
  /\ UNCHANGED <<verVars, auxVars>>
  /\ UNCHANGED <<memoryOnly, cacheDir, rw, files, now, pc,
                 savesSpawned, savesLocked>>

\* every step of caller t, storage calls succeeding
CallerNext(t) ==
  \/ \E op \in {"Get", "Stats"} : RLock(t, op)
  \/ \E op \in {"Set", "Clear"} : Lock(t, op)
  \/ \E k \in Repos : GetReturn(t, k)
  \/ \E k \in Repos : \E tg \in TagLists : SetReturn(t, k, tg)
  \/ ClearReturn(t, FALSE)
  \/ StatsReturn(t)

\* every step of the save goroutines, storage calls succeeding
SaveNext ==
  \/ SaveRLock
  \/ SaveWrite("ok")

\* concurrent callers of one cache object (memory-only or persistent)
Next ==
  \/ \E t \in Callers : CallerNext(t)
  \/ SaveNext
  \/ Tick

Spec == Init /\ [][Next]_vars

\* New(cacheDir, ttl) on a directory without a cache file
InitDisk == Init /\ ~memoryOnly

\* one caller of a persistent cache whose storage calls may fail
NextFail ==
  \/ CallerNext("c1")
  \/ SaveNext
  \/ Tick
  \/ ClearReturn("c1", TRUE)
  \/ \E o \in {"openfail", "writefail"} : SaveWrite(o)

SpecFail == InitDisk /\ [][NextFail]_vars

\* one caller of a persistent cache, and the construction of the next cache object
\* on the same directory
NextRestart ==
  \/ CallerNext("c1")
  \/ SaveNext
  \/ Tick
  \/ \E n \in TTLs : \E f \in BOOLEAN : Restart(n, f)

SpecRestart == InitDisk /\ [][NextRestart]_vars

\* ------------------------------------------- version: hashicorp/go-version
Nums == 0 .. MaxNum
Pres == {"", "beta"}

\* version.NewVersion(text): the text must be numbers separated by dots, optionally
\* led by "v" and followed by "-" and a prerelease word; fewer than three numbers
\* are padded with zeros
Pad3(segs) ==
  IF Len(segs) >= 3 THEN segs
  ELSE segs \o [i \in 1 .. (3 - Len(segs)) |-> 0]

NewVersion(text) ==
  IF text.lit # "" \/ text.junk \/ text.op # "" \/ text.segs = << >>
  THEN [err |-> TRUE, segments |-> << >>, pre |-> ""]
  ELSE [err |-> FALSE, segments |-> Pad3(text.segs), pre |-> text.pre]

\* Version.Segments()
Segments(ver) == ver.segments

\* Version.Prerelease()
Prerelease(ver) == ver.pre

\* Version.String(): the padded numbers, then "-" and the prerelease word
String(ver) == VerText(ver.segments, ver.pre)

\* comparePrereleases: no prerelease ranks above any prerelease
ComparePrereleases(a, b) ==
  IF a = b THEN 0
  ELSE IF a = "" THEN 1
  ELSE IF b = "" THEN -1
  ELSE IF a = "beta" THEN -1 ELSE 1

SegAt(segs, i) == IF i <= Len(segs) THEN segs[i] ELSE 0

RECURSIVE CompareFrom(_, _, _)
CompareFrom(a, b, i) ==
  IF i > Len(a) /\ i > Len(b) THEN 0
  ELSE IF SegAt(a, i) < SegAt(b, i) THEN -1
  ELSE IF SegAt(a, i) > SegAt(b, i) THEN 1
  ELSE CompareFrom(a, b, i + 1)

\* Version.Compare: equal numbers are decided by the prereleases, otherwise the
\* first differing number decides, the shorter list counting as zero-extended
Compare(a, b) ==
  IF a.segments = b.segments THEN ComparePrereleases(a.pre, b.pre)
  ELSE CompareFrom(a.segments, b.segments, 1)

GreaterThanOrEqual(a, b) == Compare(a, b) >= 0
LessThan(a, b) == Compare(a, b) < 0

\* ---------------------------------------------- version: policy and typing
\* shouldUpdate that lets a version update to itself
shouldUpdate_Strict(c, current, latest) ==
  IF Compare(current, latest) > 0 THEN FALSE
  ELSE IF Len(Segments(current)) < 3 \/ Len(Segments(latest)) < 3 THEN TRUE
  ELSE IF c.patchOnly
       THEN Segments(current)[1] = Segments(latest)[1]
            /\ Segments(current)[2] = Segments(latest)[2]
  ELSE IF c.minorOnly THEN Segments(current)[1] = Segments(latest)[1]
  ELSE TRUE

\* shouldUpdate that reports every newer version, whatever the policy
shouldUpdate_AnyNewer(c, current, latest) == ~GreaterThanOrEqual(current, latest)

\* Checker.shouldUpdate
shouldUpdate(c, current, latest) ==
  IF GreaterThanOrEqual(current, latest) THEN FALSE
  ELSE IF Len(Segments(current)) < 3 \/ Len(Segments(latest)) < 3 THEN TRUE
  ELSE IF c.patchOnly
       THEN Segments(current)[1] = Segments(latest)[1]
            /\ Segments(current)[2] = Segments(latest)[2]
  ELSE IF c.minorOnly THEN Segments(current)[1] = Segments(latest)[1]
  ELSE TRUE

\* detectUpdateType whose minor test does not look at the major numbers
detectUpdateType_NoMajorGuard(current, latest) ==
  LET cs == Segments(current)
      ls == Segments(latest)
  IN IF Len(cs) < 3 \/ Len(ls) < 3 THEN "unknown"
     ELSE IF ls[1] > cs[1] THEN "major"
     ELSE IF ls[2] > cs[2] THEN "minor"
     ELSE IF ls[1] = cs[1] /\ ls[2] = cs[2] /\ ls[3] > cs[3] THEN "patch"
     ELSE "unknown"

\* Checker.detectUpdateType
detectUpdateType(current, latest) ==
  LET cs == Segments(current)
      ls == Segments(latest)
  IN IF Len(cs) < 3 \/ Len(ls) < 3 THEN "unknown"
     ELSE IF ls[1] > cs[1] THEN "major"
     ELSE IF ls[1] = cs[1] /\ ls[2] > cs[2] THEN "minor"
     ELSE IF ls[1] = cs[1] /\ ls[2] = cs[2] /\ ls[3] > cs[3] THEN "patch"
     ELSE "unknown"

\* the operators extractVersionFromConstraint trims off
TrimmedOps == {"~> ", ">= ", "<= ", "= ", "> ", "< "}

\* extractVersionFromConstraint
extractVersionFromConstraint(text) ==
  IF text = EmptyText THEN EmptyText
  ELSE IF text.op \in TrimmedOps THEN [text EXCEPT !.op = ""]
  ELSE text

\* ------------------------------------- version: the two functions on their own
\* version numbers as written: one to four numbers; a fourth number is written only
\* when it is not zero, a prerelease word only after exactly three numbers
SegLists ==
  {<<a>> : a \in Nums}
  \cup {<<a, b>> : a \in Nums, b \in Nums}
  \cup {<<a, b, c>> : a \in Nums, b \in Nums, c \in Nums}
  \cup {<<a, b, c, d>> : a \in Nums, b \in Nums, c \in Nums, d \in 1 .. MaxNum}

VerTexts ==
  {VerText(sg, "") : sg \in SegLists}
  \cup {VerText(sg, "beta") : sg \in {x \in SegLists : Len(x) = 3}}

Flags == [skipPrerelease : BOOLEAN, patchOnly : BOOLEAN, minorOnly : BOOLEAN]

\* the cache inside version.New: cache.NewMemoryOnly(24 * time.Hour)
InitChecker ==
  /\ CacheInit
  /\ memoryOnly
  /\ ttl = CheckerTTL

\* a Checker with any policy, about to compare two parsed versions
InitVer ==
  /\ InitChecker
  /\ AuxIdle
  /\ checker \in Flags
  /\ vcur \in VerTexts
  /\ vlat \in VerTexts
  /\ vout = NoOut
  /\ res = NoRes

\* c.shouldUpdate(currentVersion, latestVersion) on the parsed texts
ShouldUpdate ==
  /\ vout.update = "none"
  /\ vout' = [vout EXCEPT !.update =
                IF shouldUpdate(checker, NewVersion(vcur), NewVersion(vlat))
                THEN "yes" ELSE "no"]
  /\ UNCHANGED <<cacheVars, checker, vcur, vlat, res, auxVars>>

\* c.detectUpdateType(currentVersion, latestVersion) on the parsed texts
DetectUpdateType ==
  /\ vout.type = "none"
  /\ vout' = [vout EXCEPT !.type = detectUpdateType(NewVersion(vcur), NewVersion(vlat))]
  /\ UNCHANGED <<cacheVars, checker, vcur, vlat, res, auxVars>>

\* the values of --filter: the four named ones and any other text
UpdateFilters == {"all", "major-only", "critical-only", "minor-and-above", "other"}

\* a filter for which minor-and-above lets patch updates through
shouldDisplayUpdate_PatchToo(updateType, filter) ==
  IF filter \in {"major-only", "critical-only"} THEN updateType = "major"
  ELSE IF filter = "minor-and-above" THEN updateType \in {"major", "minor", "patch"}
  ELSE TRUE

\* shouldDisplayUpdate
shouldDisplayUpdate(updateType, filter) ==
  IF filter \in {"major-only", "critical-only"} THEN updateType = "major"
  ELSE IF filter = "minor-and-above" THEN updateType = "major" \/ updateType = "minor"
  ELSE IF filter = "all" THEN TRUE
  ELSE TRUE

\* shouldDisplayUpdate(update.UpdateType, filter) on the detected update type
DisplayUpdate(filter) ==
  /\ vout.type # "none"
  /\ vout.shown = "none"
  /\ vout' = [vout EXCEPT !.filter = filter,
                          !.shown = IF shouldDisplayUpdate(vout.type, filter)
                                    THEN "yes" ELSE "no"]
  /\ UNCHANGED <<cacheVars, checker, vcur, vlat, res, auxVars>>

NextVer == ShouldUpdate \/ DetectUpdateType \/ \E f \in UpdateFilters : DisplayUpdate(f)

SpecVer == InitVer /\ [][NextVer]_vars

\* ------------------------------------------------ version: one resolution
\* A source string by what the program reads from it:
\*   parts - strings.Split(source, "/")
\*   host, owner, repo - the host and the two path elements after it, for a URL
\*   ref   - the value of the ref= query parameter, else the empty string
RegistrySource(parts) == [NoSource EXCEPT !.parts = parts]

GitSource(host, owner, repo, ref) ==
  [parts |-> <<"git::https:", "", host, owner, repo>>, host |-> host,
   owner |-> owner, repo |-> repo, ref |-> ref]

\* scanner.ModuleInfo
ModuleInfo(name, sourceType, source, version) ==
  [Name |-> name, Source |-> source, Version |-> version, SourceType |-> sourceType]

\* parseGitSource: the regular expression github\.com[/:]([^/]+)/([^.?]+)
parseGitSource(source) ==
  IF source.host = "github.com" /\ source.owner # "" /\ source.repo # ""
  THEN [err |-> FALSE, owner |-> source.owner, repo |-> source.repo]
  ELSE [err |-> TRUE, owner |-> "", repo |-> ""]

\* extractGitVersion: the regular expression [?&]ref=([^&]+)
extractGitVersion(source) == source.ref

\* fmt.Sprintf("%s/%s", owner, repo)
RepoKey(owner, repo) == <<owner, repo>>

\* strings.TrimPrefix(text, "v")
TrimPrefixV(text) == [text EXCEPT !.v = FALSE]

\* the loop "parse and filter versions": unparsable texts are skipped, and
\* prereleases too when skipPrerelease is set
ParseAndFilter(c, texts) ==
  LET parsed == [i \in 1 .. Len(texts) |-> NewVersion(texts[i])]
      Keep(v) == ~v.err /\ ~(c.skipPrerelease /\ Prerelease(v) # "")
  IN SelectSeq(parsed, Keep)

RECURSIVE InsertSorted(_, _)
InsertSorted(sorted, v) ==
  IF sorted = << >> THEN <<v>>
  ELSE IF LessThan(v, Head(sorted)) THEN <<v>> \o sorted
  ELSE <<Head(sorted)>> \o InsertSorted(Tail(sorted), v)

\* no sorting: the versions stay in upstream order
SortCollection_Unsorted(versions) == versions

\* sort.Sort(version.Collection(versions)): ascending by Version.LessThan
RECURSIVE SortCollection(_)
SortCollection(versions) ==
  IF versions = << >> THEN << >>
  ELSE InsertSorted(SortCollection(Tail(versions)), Head(versions))

\* "Major version upgrade from %s to %s may contain breaking changes. ..."
MajorUpgradeDetails(current, latest) ==
  <<[from |-> String(current), to |-> String(latest)]>>

\* a comparison that raises the flag without giving a reason
Compared_FlagOnly(c, info, current, latest) ==
  LET ut == detectUpdateType(current, latest)
  IN [info EXCEPT !.IsOutdated = shouldUpdate(c, current, latest),
                  !.UpdateType = ut,
                  !.HasBreakingChange = (ut = "major"),
                  !.BreakingChangeDetails = << >>]

\* the fields set from shouldUpdate and detectUpdateType when a current version parsed
Compared(c, info, current, latest) ==
  LET ut == detectUpdateType(current, latest)
  IN [info EXCEPT !.IsOutdated = shouldUpdate(c, current, latest),
                  !.UpdateType = ut,
                  !.HasBreakingChange = (ut = "major"),
                  !.BreakingChangeDetails =
                     IF ut = "major" THEN MajorUpgradeDetails(current, latest)
                     ELSE << >>]

\* Checker.checkRegistryModule; resp is what the registry answers
checkRegistryModule(c, module, resp) ==
  LET info0 == [ZeroInfo EXCEPT
                  !.CurrentVersion = extractVersionFromConstraint(module.Version)]
      parts == module.Source.parts
      versions == SortCollection(ParseAndFilter(c, resp.versions))
  IN IF Len(parts) < 3 THEN [err |-> TRUE, remote |-> FALSE, info |-> info0]
     ELSE IF resp.status # "ok" THEN [err |-> TRUE, remote |-> TRUE, info |-> info0]
     ELSE IF Len(resp.versions) = 0
          THEN [err |-> TRUE, remote |-> TRUE, info |-> info0]
     ELSE IF Len(versions) = 0 THEN [err |-> TRUE, remote |-> TRUE, info |-> info0]
     ELSE
       LET latestVersion == versions[Len(versions)]
           info1 == [info0 EXCEPT !.LatestVersion = String(latestVersion)]
           url == [site |-> "registry.terraform.io/modules",
                   path |-> SubSeq(parts, 1, 3), version |-> String(latestVersion)]
       IN IF module.Version # EmptyText
          THEN LET currentVersion ==
                     NewVersion(extractVersionFromConstraint(module.Version))
               IN IF currentVersion.err
                  THEN [err |-> TRUE, remote |-> TRUE, info |-> info1]
                  ELSE [err |-> FALSE, remote |-> TRUE,
                        info |-> [Compared(c, info1, currentVersion, latestVersion)
                                    EXCEPT !.ChangelogURL = url]]
          ELSE [err |-> FALSE, remote |-> TRUE,
                info |-> [info1 EXCEPT !.IsOutdated = FALSE,
                                       !.UpdateType = "unknown",
                                       !.LatestVersion = Lit("latest"),
                                       !.ChangelogURL = url]]

\* Checker.checkProvider; resp is what the registry answers
checkProvider(c, provider, resp) ==
  LET info0 == [ZeroInfo EXCEPT
                  !.CurrentVersion = extractVersionFromConstraint(provider.Version)]
      parts == provider.Source.parts
      versions == SortCollection(ParseAndFilter(c, resp.versions))
  IN IF Len(parts) < 2 THEN [err |-> TRUE, remote |-> FALSE, info |-> info0]
     ELSE IF resp.status # "ok" THEN [err |-> TRUE, remote |-> TRUE, info |-> info0]
     ELSE IF Len(resp.versions) = 0
          THEN [err |-> TRUE, remote |-> TRUE, info |-> info0]
     ELSE IF Len(versions) = 0 THEN [err |-> TRUE, remote |-> TRUE, info |-> info0]
     ELSE
       LET latestVersion == versions[Len(versions)]
           info1 == [info0 EXCEPT !.LatestVersion = String(latestVersion)]
           url == [site |-> "registry.terraform.io/providers",
                   path |-> SubSeq(parts, 1, 2), version |-> String(latestVersion)]
       IN IF info1.CurrentVersion # EmptyText
          THEN LET currentVersion == NewVersion(info1.CurrentVersion)
               IN IF currentVersion.err
                  THEN [err |-> TRUE, remote |-> TRUE, info |-> info1]
                  ELSE [err |-> FALSE, remote |-> TRUE,
                        info |-> [Compared(c, info1, currentVersion, latestVersion)
                                    EXCEPT !.ChangelogURL = url]]
          ELSE [err |-> FALSE, remote |-> TRUE,
                info |-> [info1 EXCEPT !.IsOutdated = FALSE,
                                       !.UpdateType = "unknown",
                                       !.ChangelogURL = url]]

\* a lookup that never finds anything
CachedTags_Skip(m, repoKey, t) == [tags |-> << >>, found |-> FALSE]

\* "try to get tags from cache first": c.cache.Get(repoKey)
CachedTags(m, repoKey, t) == Get(m, repoKey, t)

\* Checker.checkGitModule; resp is what ListTags answers, m the cache entries
checkGitModule(c, module, resp, m, t, cttl) ==
  LET info0 == [ZeroInfo EXCEPT !.CurrentVersion = module.Version]
      src == parseGitSource(module.Source)
      repoKey == RepoKey(src.owner, src.repo)
      cached == CachedTags(m, repoKey, t)
      tagNames == IF cached.found THEN cached.tags ELSE resp.versions
      m1 == IF cached.found THEN m ELSE SetEntry(m, repoKey, tagNames, t, cttl)
      cleanTagNames == [i \in 1 .. Len(tagNames) |-> TrimPrefixV(tagNames[i])]
      versions == SortCollection(ParseAndFilter(c, cleanTagNames))
  IN IF src.err
     THEN [err |-> TRUE, remote |-> FALSE, info |-> info0, entries |-> m]
     ELSE IF ~cached.found /\ resp.status # "ok"
     THEN [err |-> TRUE, remote |-> TRUE, info |-> info0, entries |-> m]
     ELSE IF ~cached.found /\ Len(resp.versions) = 0
     THEN [err |-> TRUE, remote |-> TRUE, info |-> info0, entries |-> m]
     ELSE IF Len(versions) = 0
     THEN [err |-> TRUE, remote |-> ~cached.found, info |-> info0, entries |-> m1]
     ELSE
       LET latestVersion == versions[Len(versions)]
           info1 == [info0 EXCEPT !.LatestVersion = String(latestVersion)]
           url == [site |-> "github.com", path |-> <<src.owner, src.repo>>,
                   version |-> VTag(latestVersion.segments, latestVersion.pre)]
           currentVersion == extractGitVersion(module.Source)
           current == NewVersion(TrimPrefixV(currentVersion))
           info2 ==
             IF currentVersion # EmptyText
             THEN IF ~current.err
                  THEN Compared(c, [info1 EXCEPT !.CurrentVersion = currentVersion],
                                current, latestVersion)
                  ELSE [info1 EXCEPT !.CurrentVersion = currentVersion]
             ELSE [info1 EXCEPT !.IsOutdated = FALSE,
                                !.UpdateType = "unknown",
                                !.CurrentVersion = Lit("default branch"),
                                !.LatestVersion = Lit("latest")]
       IN [err |-> FALSE, remote |-> ~cached.found,
           info |-> [info2 EXCEPT !.ChangelogURL = url], entries |-> m1]

\* ------------------------------------------- version: resolution universes
\* what a registry or a tag listing can hold: releases, a prerelease, a text that
\* is no version
UpVersions ==
  {VerText(<<1, 0, 0>>, ""), VerText(<<1, 0, 1>>, ""), VerText(<<1, 1, 0>>, ""),
   VerText(<<2, 0, 0>>, ""), VerText(<<2, 0, 0>>, "beta"), JunkText}

UpTags ==
  {VTag(<<1, 0, 0>>, ""), VTag(<<1, 0, 1>>, ""), VTag(<<2, 0, 0>>, "beta"), JunkText}

\* every list of at most MaxList elements of S
ListsOf(S) == UNION {[1 .. n -> S] : n \in 0 .. MaxList}

\* the answer of an upstream: a list, a transport error, or a status other than 200
Responses(S) ==
  {[status |-> "ok", versions |-> l] : l \in ListsOf(S)}
  \cup {[status |-> st, versions |-> << >>] : st \in {"error", "status404"}}

\* what "version = ..." can say: nothing, a version, a constraint, a text that is
\* no version
Declared ==
  {EmptyText, VerText(<<1, 0, 0>>, ""), VerText(<<2, 0, 0>>, ""),
   VerText(<<2, 0, 0>>, "beta"), Constraint("~> ", <<1, 0>>), JunkText}

RegistryModules ==
  [Name : {"vpc"},
   Source : {RegistrySource(<<"terraform-aws-modules", "vpc", "aws">>),
             RegistrySource(<<"invalid-source">>)},
   Version : Declared, SourceType : {"registry"}]

Providers ==
  [Name : {"aws"},
   Source : {RegistrySource(<<"hashicorp", "aws">>), RegistrySource(<<"aws">>)},
   Version : Declared]

GitModules ==
  [Name : {"mod"},
   Source : {GitSource("github.com", "owner", "repo", r) :
               r \in {EmptyText, VTag(<<1, 0, 0>>, ""), JunkText}}
            \cup {GitSource("gitlab.com", "owner", "repo", EmptyText)},
   Version : {EmptyText}, SourceType : {"git"}]

\* --------------------------------------------- version: resolution actions
\* version.New with any policy flags; nothing resolved yet
InitCheck ==
  /\ InitChecker
  /\ AuxIdle
  /\ checker \in Flags
  /\ vcur = EmptyText
  /\ vlat = EmptyText
  /\ vout = NoOut
  /\ res = NoRes

Resolved(kind, dep, resp, out) ==
  [kind |-> kind, Source |-> dep.Source, Version |-> dep.Version,
   resp |-> IF out.remote THEN resp ELSE NoResp,
   remote |-> out.remote, err |-> out.err, info |-> out.info]

\* c.checkRegistryModule(ctx, module)
CheckRegistryModule(module, resp) ==
  /\ res.kind = "none"
  /\ res' = Resolved("registry", module, resp, checkRegistryModule(checker, module, resp))
  /\ UNCHANGED <<cacheVars, checker, vcur, vlat, vout, auxVars>>

\* c.checkProvider(ctx, provider)
CheckProvider(provider, resp) ==
  /\ res.kind = "none"
  /\ res' = Resolved("provider", provider, resp, checkProvider(checker, provider, resp))
  /\ UNCHANGED <<cacheVars, checker, vcur, vlat, vout, auxVars>>

\* a resolution that stamps the entry anew when it was served from the cache
CheckGitModule_StampOnHit(module, resp) ==
  LET out == checkGitModule(checker, module, resp, entries, now, ttl)
      src == parseGitSource(module.Source)
      repoKey == RepoKey(src.owner, src.repo)
      m1 == IF ~src.err /\ ~out.remote
            THEN SetEntry(entries, repoKey, entries[repoKey].Tags, now, ttl)
            ELSE out.entries
  IN /\ res.kind = "none"
     /\ res' = Resolved("git", module, resp, out)
     /\ entries' = m1
     /\ lastSet' = [k \in DOMAIN m1 |-> [tags |-> m1[k].Tags, at |-> m1[k].CachedAt]]
     /\ UNCHANGED <<memoryOnly, cacheDir, ttl, rw, files, now, pc, ret,
                    savesSpawned, savesLocked, fsOps, cleared>>
     /\ UNCHANGED <<checker, vcur, vlat, vout, auxVars>>

\* c.checkGitModule(ctx, module), its cache.Get and cache.Set included
CheckGitModule(module, resp) ==
  LET out == checkGitModule(checker, module, resp, entries, now, ttl)
  IN /\ res.kind = "none"
     /\ res' = Resolved("git", module, resp, out)
     /\ entries' = out.entries
     /\ lastSet' = [k \in DOMAIN out.entries |->
                      [tags |-> out.entries[k].Tags, at |-> out.entries[k].CachedAt]]
     /\ UNCHANGED <<memoryOnly, cacheDir, ttl, rw, files, now, pc, ret,
                    savesSpawned, savesLocked, fsOps, cleared>>
     /\ UNCHANGED <<checker, vcur, vlat, vout, auxVars>>

\* the loop of Check / CheckProviders moves on: the result of the iteration has been
\* appended or logged, and updateInfo of the next iteration is a fresh value
NextDependency ==
  /\ res.kind # "none"
  /\ res' = NoRes
  /\ UNCHANGED <<cacheVars, checker, vcur, vlat, vout, auxVars>>

\* one Checker resolving dependencies one after the other
NextCheck ==
  \/ NextDependency
  \/ \E m \in RegistryModules : \E r \in Responses(UpVersions) : CheckRegistryModule(m, r)
  \/ \E p \in Providers : \E r \in Responses(UpVersions) : CheckProvider(p, r)
  \/ \E m \in GitModules : \E r \in Responses(UpTags) : CheckGitModule(m, r)

SpecCheck == InitCheck /\ [][NextCheck]_vars

\* one Checker resolving git modules one after the other while time passes
NextGit ==
  \/ NextDependency
  \/ \E m \in GitModules : \E r \in Responses(UpTags) : CheckGitModule(m, r)
  \/ Tick

SpecGit == InitCheck /\ [][NextGit]_vars

\* the dependency of the last resolution is resolved once more by the same Checker,
\* the upstream answering as it did the first time
CheckAgain ==
  /\ res.kind # "none"
  /\ prev = NoRes
  /\ LET dep == ModuleInfo("mod", res.kind, res.Source, res.Version)
         gout == checkGitModule(checker, dep, res.resp, entries, now, ttl)
         out == IF res.kind = "git"
                THEN [err |-> gout.err, remote |-> gout.remote, info |-> gout.info]
                ELSE IF res.kind = "registry"
                THEN checkRegistryModule(checker, dep, res.resp)
                ELSE checkProvider(checker, dep, res.resp)
         m1 == IF res.kind = "git" THEN gout.entries ELSE entries
     IN /\ prev' = res
        /\ res' = Resolved(res.kind, dep, res.resp, out)
        /\ entries' = m1
        /\ lastSet' = [k \in DOMAIN m1 |->
                         [tags |-> m1[k].Tags, at |-> m1[k].CachedAt]]
  /\ UNCHANGED <<memoryOnly, cacheDir, ttl, rw, files, now, pc, ret,
                 savesSpawned, savesLocked, fsOps, cleared>>
  /\ UNCHANGED <<checker, vcur, vlat, vout, batch, schema, plan, pr>>

\* a first resolution of any dependency, time passing, and the same resolution again
NextTwice ==
  \/ \E m \in RegistryModules : \E r \in Responses(UpVersions) : CheckRegistryModule(m, r)
  \/ \E p \in Providers : \E r \in Responses(UpVersions) : CheckProvider(p, r)
  \/ \E m \in GitModules : \E r \in Responses(UpTags) : CheckGitModule(m, r)
  \/ Tick
  \/ CheckAgain

SpecTwice == InitCheck /\ [][NextTwice]_vars

\* ------------------------------------------------------ version: Check
\* A module name is the sequence of its dash-separated words, so that one name can
\* be a proper prefix of another ("vpc", "vpc-extended").
ModuleNames == {<<"vpc">>, <<"vpc", "extended">>}

\* isIgnored that also matches a name beginning with an entry
isIgnored_Prefix(ignoreModules, moduleName) ==
  \E ignored \in ignoreModules :
    /\ Len(ignored) <= Len(moduleName)
    /\ SubSeq(moduleName, 1, Len(ignored)) = ignored

\* Checker.isIgnored
isIgnored(ignoreModules, moduleName) ==
  \E ignored \in ignoreModules : ignored = moduleName

\* a relative path "./modules/vpc"
LocalSource == RegistrySource(<<".", "modules", "vpc">>)

\* the modules a scan can hand to Check
BatchModules ==
  {ModuleInfo(n, "registry", RegistrySource(<<"terraform-aws-modules", "vpc", "aws">>),
              VerText(<<1, 0, 0>>, "")) : n \in ModuleNames}
  \cup {ModuleInfo(n, "git", GitSource("github.com", "owner", "repo", VTag(<<1, 0, 0>>, "")),
                   EmptyText) : n \in ModuleNames}
  \cup {ModuleInfo(<<"vpc">>, "registry",
                   RegistrySource(<<"terraform-aws-modules", "vpc", "aws">>), EmptyText),
        ModuleInfo(<<"vpc">>, "registry", RegistrySource(<<"invalid-source">>),
                   VerText(<<1, 0, 0>>, "")),
        ModuleInfo(<<"vpc">>, "registry",
                   RegistrySource(<<"terraform-aws-modules", "vpc", "aws">>), JunkText),
        ModuleInfo(<<"vpc">>, "git", GitSource("gitlab.com", "owner", "repo", EmptyText),
                   EmptyText),
        ModuleInfo(<<"vpc">>, "local", LocalSource, EmptyText),
        ModuleInfo(<<"vpc">>, "unknown", RegistrySource(<<"s3::bucket">>), EmptyText)}

BatchLists == UNION {[1 .. n -> BatchModules] : n \in 0 .. MaxBatch}

\* the providers a scan can hand to CheckProviders
BatchProviders ==
  {[Name |-> <<"aws">>, Source |-> RegistrySource(<<"hashicorp", "aws">>), Version |-> v] :
     v \in {VerText(<<1, 0, 0>>, ""), EmptyText, JunkText}}
  \cup {[Name |-> <<"aws">>, Source |-> RegistrySource(<<"aws">>),
         Version |-> VerText(<<1, 0, 0>>, "")]}

ProviderLists == UNION {[1 .. n -> BatchProviders] : n \in 0 .. MaxBatch}

\* what the registry or the tag listing answers to one request of a batch; "error"
\* includes a cancelled or timed-out context
BatchResponses ==
  {[status |-> "ok", versions |-> l] :
     l \in {<<VTag(<<2, 0, 0>>, "")>>, <<VTag(<<1, 0, 0>>, "")>>, <<JunkText>>, << >>}}
  \cup {[status |-> st, versions |-> << >>] : st \in {"error", "status404"}}

\* what AnalyzeBreakingChanges returns: an error, or an analysis
AIOutcomes == {"error", "breaking", "safe"}

\* version.New(...) with an ignore list, optionally SetAIAnalyzer, then Check(ctx, modules)
InitBatch ==
  /\ InitChecker
  /\ checker \in {c \in Flags : ~c.skipPrerelease /\ ~c.minorOnly}
  /\ vcur = EmptyText
  /\ vlat = EmptyText
  /\ vout = NoOut
  /\ res = NoRes
  /\ prev = NoRes
  /\ schema = NoSchema
  /\ plan = NoPlan
  /\ pr = NoPR
  /\ batch \in {[NoBatch EXCEPT !.fn = "Check", !.modules = ms,
                                 !.ignoreModules = ig, !.ai = a] :
                  ms \in BatchLists, ig \in {{}, {<<"vpc">>}}, a \in BOOLEAN}
              \cup {[NoBatch EXCEPT !.fn = "CheckProviders", !.modules = ps, !.ai = a] :
                     ps \in ProviderLists, a \in BOOLEAN}

\* what one iteration did, for the record: which check function ran, whether the
\* cache was read, whether the upstream was asked and what it answered, the error
\* and the UpdateInfo the function returned
LogEntry(called, cacheRead, resp, out) ==
  [called |-> called, cacheRead |-> cacheRead,
   resp |-> IF out.remote THEN resp ELSE NoResp,
   remote |-> out.remote, err |-> out.err, info |-> out.info]

Skipped == [remote |-> FALSE, err |-> FALSE, info |-> ZeroInfo]

\* a loop body that appends every verdict it obtained, outdated or not
CheckBody_AppendAll(c, b, module, resp, aiOut, m, t, cttl) ==
  IF isIgnored(b.ignoreModules, module.Name)
     \/ module.SourceType \notin {"registry", "git"}
  THEN [entry |-> LogEntry("none", FALSE, resp, Skipped), append |-> << >>, entries |-> m]
  ELSE
    LET git == module.SourceType = "git"
        gout == checkGitModule(c, module, resp, m, t, cttl)
        out == IF git THEN [err |-> gout.err, remote |-> gout.remote, info |-> gout.info]
               ELSE checkRegistryModule(c, module, resp)
        entry == LogEntry(module.SourceType,
                          git /\ ~parseGitSource(module.Source).err, resp, out)
        analysis == IF b.ai /\ aiOut # "error" THEN aiOut ELSE "nil"
    IN [entry |-> entry,
        append |-> IF out.err THEN << >>
                   ELSE <<[Module |-> module, info |-> out.info, AIAnalysis |-> analysis]>>,
        entries |-> IF git THEN gout.entries ELSE m]

\* the body of the loop of Check for module, given the cache entries m
CheckBody(c, b, module, resp, aiOut, m, t, cttl) ==
  IF isIgnored(b.ignoreModules, module.Name)
  THEN [entry |-> LogEntry("none", FALSE, resp, Skipped), append |-> << >>, entries |-> m]
  ELSE IF module.SourceType = "local"
  THEN [entry |-> LogEntry("none", FALSE, resp, Skipped), append |-> << >>, entries |-> m]
  ELSE IF module.SourceType \notin {"registry", "git"}
  THEN [entry |-> LogEntry("none", FALSE, resp, Skipped), append |-> << >>, entries |-> m]
  ELSE
    LET git == module.SourceType = "git"
        gout == checkGitModule(c, module, resp, m, t, cttl)
        out == IF git THEN [err |-> gout.err, remote |-> gout.remote, info |-> gout.info]
               ELSE checkRegistryModule(c, module, resp)
        m1 == IF git THEN gout.entries ELSE m
        entry == LogEntry(module.SourceType,
                          git /\ ~parseGitSource(module.Source).err, resp, out)
        analysis == IF b.ai /\ aiOut # "error" THEN aiOut ELSE "nil"
    IN IF out.err THEN [entry |-> entry, append |-> << >>, entries |-> m1]
       ELSE IF out.info.IsOutdated
       THEN [entry |-> entry,
             append |-> <<[Module |-> module, info |-> out.info, AIAnalysis |-> analysis]>>,
             entries |-> m1]
       ELSE [entry |-> entry, append |-> << >>, entries |-> m1]

\* an iteration that returns the error of a failed resolution instead of logging it
CheckStep_AbortOnError(resp, aiOut) ==
  /\ batch.fn = "Check"
  /\ ~batch.done
  /\ batch.i <= Len(batch.modules)
  /\ \E o \in {CheckBody(checker, batch, batch.modules[batch.i], resp, aiOut,
                         entries, now, ttl)} :
        /\ batch' = [batch EXCEPT !.i = @ + 1,
                                  !.log = Append(@, o.entry),
                                  !.updates = @ \o o.append,
                                  !.done = o.entry.err,
                                  !.err = IF o.entry.err THEN "failed" ELSE "nil"]
        /\ entries' = o.entries
        /\ lastSet' = [k \in DOMAIN o.entries |->
                         [tags |-> o.entries[k].Tags, at |-> o.entries[k].CachedAt]]
  /\ UNCHANGED <<memoryOnly, cacheDir, ttl, rw, files, now, pc, ret,
                 savesSpawned, savesLocked, fsOps, cleared>>
  /\ UNCHANGED <<verVars, prev, schema, plan, pr>>

\* one iteration of "for _, module := range modules" in Check
CheckStep(resp, aiOut) ==
  /\ batch.fn = "Check"
  /\ ~batch.done
  /\ batch.i <= Len(batch.modules)
  /\ \E o \in {CheckBody(checker, batch, batch.modules[batch.i], resp, aiOut,
                         entries, now, ttl)} :
        /\ batch' = [batch EXCEPT !.i = @ + 1,
                                  !.log = Append(@, o.entry),
                                  !.updates = @ \o o.append]
        /\ entries' = o.entries
        /\ lastSet' = [k \in DOMAIN o.entries |->
                         [tags |-> o.entries[k].Tags, at |-> o.entries[k].CachedAt]]
  /\ UNCHANGED <<memoryOnly, cacheDir, ttl, rw, files, now, pc, ret,
                 savesSpawned, savesLocked, fsOps, cleared>>
  /\ UNCHANGED <<verVars, prev, schema, plan, pr>>

\* the body of the loop of CheckProviders for provider
CheckProvidersBody(c, b, provider, resp, aiOut) ==
  LET out == checkProvider(c, provider, resp)
      entry == LogEntry("provider", FALSE, resp, out)
      analysis == IF b.ai /\ aiOut # "error" THEN aiOut ELSE "nil"
  IN IF out.err THEN [entry |-> entry, append |-> << >>]
     ELSE IF out.info.IsOutdated
     THEN [entry |-> entry,
           append |-> <<[Module |-> provider, info |-> out.info, AIAnalysis |-> analysis]>>]
     ELSE [entry |-> entry, append |-> << >>]

\* one iteration of "for _, provider := range providers" in CheckProviders
CheckProvidersStep(resp, aiOut) ==
  /\ batch.fn = "CheckProviders"
  /\ ~batch.done
  /\ batch.i <= Len(batch.modules)
  /\ LET o == CheckProvidersBody(checker, batch, batch.modules[batch.i], resp, aiOut)
     IN batch' = [batch EXCEPT !.i = @ + 1,
                               !.log = Append(@, o.entry),
                               !.updates = @ \o o.append]
  /\ UNCHANGED <<cacheVars, verVars, prev, schema, plan, pr>>

\* "return updates, nil" after the last module
CheckReturn ==
  /\ ~batch.done
  /\ batch.i > Len(batch.modules)
  /\ batch' = [batch EXCEPT !.done = TRUE, !.err = "nil"]
  /\ UNCHANGED <<cacheVars, verVars, prev, schema, plan, pr>>

NextBatch ==
  \/ \E r \in BatchResponses : \E a \in AIOutcomes : CheckStep(r, a)
  \/ \E r \in BatchResponses : \E a \in AIOutcomes : CheckProvidersStep(r, a)
  \/ CheckReturn

SpecBatch == InitBatch /\ [][NextBatch]_vars

\* --------------------------------------- terraform: compareSchemaStructures
VarNames == {"a", "b"}
OutNames == {"x", "y"}
VarTypes == {"string", "number"}

\* Variable{Type, Required}; Description and Default are carried along unread
Variables == [Type : VarTypes, Required : BOOLEAN]

\* map[string]Variable, map[string]Output
VariableMaps == UNION {[S -> Variables] : S \in SUBSET VarNames}
OutputMaps == UNION {[S -> {[Description |-> "d"]}] : S \in SUBSET OutNames}

\* (*ModuleSchema)(nil)
NilSchema == [nil |-> TRUE, Variables |-> EmptyMap, Outputs |-> EmptyMap]

ModuleSchemas ==
  {NilSchema}
  \cup {[nil |-> FALSE, Variables |-> v, Outputs |-> o] :
          v \in VariableMaps, o \in OutputMaps}

\* the orders in which "for name := range m" can visit the keys of a map over S
Orders(S) ==
  {o \in UNION {[1 .. n -> S] : n \in {Cardinality(S)}} :
     \A i, k \in DOMAIN o : i # k => o[i] # o[k]}

\* the SchemaChanges that compareSchemaStructures starts from
EmptyChanges ==
  [HasChanges |-> FALSE, AddedRequiredVars |-> << >>, RemovedVars |-> << >>,
   ChangedVarTypes |-> << >>, RemovedOutputs |-> << >>, AddedOutputs |-> << >>]

\* "for name, latestVar := range latest.Variables", names: the keys still to visit
RECURSIVE AddedAndChangedLoop(_, _, _, _)
AddedAndChangedLoop(names, current, latest, changes) ==
  IF names = << >> THEN changes
  ELSE
    LET name == Head(names)
        latestVar == latest.Variables[name]
        exists == name \in DOMAIN current.Variables
        next ==
          IF ~exists
          THEN IF latestVar.Required
               THEN [changes EXCEPT
                       !.AddedRequiredVars =
                          Append(@, [Name |-> name, Type |-> latestVar.Type,
                                     Required |-> TRUE]),
                       !.HasChanges = TRUE]
               ELSE changes
          ELSE IF current.Variables[name].Type # latestVar.Type
          THEN [changes EXCEPT
                  !.ChangedVarTypes =
                     Append(@, [Name |-> name,
                                Type |-> <<current.Variables[name].Type, latestVar.Type>>,
                                Required |-> FALSE]),
                  !.HasChanges = TRUE]
          ELSE changes
    IN AddedAndChangedLoop(Tail(names), current, latest, next)

\* "for name, currentVar := range current.Variables"
RECURSIVE RemovedVarsLoop(_, _, _, _)
RemovedVarsLoop(names, current, latest, changes) ==
  IF names = << >> THEN changes
  ELSE
    LET name == Head(names)
        currentVar == current.Variables[name]
        next ==
          IF name \notin DOMAIN latest.Variables
          THEN [changes EXCEPT
                  !.RemovedVars =
                     Append(@, [Name |-> name, Type |-> currentVar.Type,
                                Required |-> currentVar.Required]),
                  !.HasChanges = TRUE]
          ELSE changes
    IN RemovedVarsLoop(Tail(names), current, latest, next)

\* "for name, currentOutput := range current.Outputs"
RECURSIVE RemovedOutputsLoop(_, _, _, _)
RemovedOutputsLoop(names, current, latest, changes) ==
  IF names = << >> THEN changes
  ELSE
    LET name == Head(names)
        next ==
          IF name \notin DOMAIN latest.Outputs
          THEN [changes EXCEPT
                  !.RemovedOutputs =
                     Append(@, [Name |-> name,
                                Description |-> current.Outputs[name].Description]),
                  !.HasChanges = TRUE]
          ELSE changes
    IN RemovedOutputsLoop(Tail(names), current, latest, next)

\* an added-outputs loop that also raises HasChanges
RECURSIVE AddedOutputsLoop_Flag(_, _, _, _)
AddedOutputsLoop_Flag(names, current, latest, changes) ==
  IF names = << >> THEN changes
  ELSE
    LET name == Head(names)
        next ==
          IF name \notin DOMAIN current.Outputs
          THEN [changes EXCEPT
                  !.AddedOutputs =
                     Append(@, [Name |-> name,
                                Description |-> latest.Outputs[name].Description]),
                  !.HasChanges = TRUE]
          ELSE changes
    IN AddedOutputsLoop_Flag(Tail(names), current, latest, next)

\* "for name, latestOutput := range latest.Outputs" (informational only)
RECURSIVE AddedOutputsLoop(_, _, _, _)
AddedOutputsLoop(names, current, latest, changes) ==
  IF names = << >> THEN changes
  ELSE
    LET name == Head(names)
        next ==
          IF name \notin DOMAIN current.Outputs
          THEN [changes EXCEPT
                  !.AddedOutputs =
                     Append(@, [Name |-> name,
                                Description |-> latest.Outputs[name].Description])]
          ELSE changes
    IN AddedOutputsLoop(Tail(names), current, latest, next)

\* the keys of map m in the order ord visits them
KeysInOrder(ord, m) == SelectSeq(ord, LAMBDA n : n \in DOMAIN m)

\* a comparison that records every new variable, required or not
compareSchemaStructures_AllAdded(current, latest, ordV, ordO) ==
  IF current.nil \/ latest.nil THEN EmptyChanges
  ELSE
    LET required == [latest EXCEPT !.Variables =
                       [n \in DOMAIN latest.Variables |->
                          [latest.Variables[n] EXCEPT !.Required = TRUE]]]
        c1 == AddedAndChangedLoop(KeysInOrder(ordV, latest.Variables),
                                  current, required, EmptyChanges)
        c2 == RemovedVarsLoop(KeysInOrder(ordV, current.Variables), current, latest, c1)
        c3 == RemovedOutputsLoop(KeysInOrder(ordO, current.Outputs), current, latest, c2)
    IN AddedOutputsLoop(KeysInOrder(ordO, latest.Outputs), current, latest, c3)

\* SchemaComparator.compareSchemaStructures; ordV, ordO: the order in which the
\* runtime iterates over variable names and over output names
compareSchemaStructures(current, latest, ordV, ordO) ==
  IF current.nil \/ latest.nil THEN EmptyChanges
  ELSE
    LET c1 == AddedAndChangedLoop(KeysInOrder(ordV, latest.Variables),
                                  current, latest, EmptyChanges)
        c2 == RemovedVarsLoop(KeysInOrder(ordV, current.Variables), current, latest, c1)
        c3 == RemovedOutputsLoop(KeysInOrder(ordO, current.Outputs), current, latest, c2)
    IN AddedOutputsLoop(KeysInOrder(ordO, latest.Outputs), current, latest, c3)

\* HasBreakingSchemaChanges, for a non-nil argument
HasBreakingSchemaChanges(changes) ==
  \/ Len(changes.AddedRequiredVars) > 0
  \/ Len(changes.RemovedVars) > 0
  \/ Len(changes.ChangedVarTypes) > 0
  \/ Len(changes.RemovedOutputs) > 0

\* two schema snapshots, not yet compared
InitSchema ==
  /\ InitChecker
  /\ checker = NoFlags
  /\ vcur = EmptyText
  /\ vlat = EmptyText
  /\ vout = NoOut
  /\ res = NoRes
  /\ prev = NoRes
  /\ batch = NoBatch
  /\ plan = NoPlan
  /\ pr = NoPR
  /\ schema \in {[called |-> FALSE, current |-> c, latest |-> l,
                  changes |-> EmptyChanges, breaking |-> "unset"] :
                   c \in ModuleSchemas, l \in ModuleSchemas}

\* changes := sc.compareSchemaStructures(current, latest)
CompareSchemaStructures(ordV, ordO) ==
  /\ ~schema.called
  /\ schema' = [schema EXCEPT
                  !.called = TRUE,
                  !.changes = compareSchemaStructures(schema.current, schema.latest,
                                                      ordV, ordO)]
  /\ UNCHANGED <<cacheVars, verVars, prev, batch, plan, pr>>

\* HasBreakingSchemaChanges(changes) on the returned comparison
CallHasBreakingSchemaChanges ==
  /\ schema.called
  /\ schema.breaking = "unset"
  /\ schema' = [schema EXCEPT
                  !.breaking = IF HasBreakingSchemaChanges(schema.changes)
                               THEN "yes" ELSE "no"]
  /\ UNCHANGED <<cacheVars, verVars, prev, batch, plan, pr>>

NextSchema ==
  \/ \E ordV \in Orders(VarNames) : \E ordO \in Orders(OutNames) :
       CompareSchemaStructures(ordV, ordO)
  \/ CallHasBreakingSchemaChanges

SpecSchema == InitSchema /\ [][NextSchema]_vars

\* ---------------------------------------- terraform: AnalyzeResourceChanges
PlanActions == {"create", "delete", "update", "no-op"}

\* ResourceChange.Action as the plan gives it
ActionLists ==
  UNION {[1 .. n -> PlanActions] : n \in 0 .. 2}
  \cup {<<"delete", "create", "update">>}

\* the plan records: one resource without replace triggers, one with a trigger
PlanRecords ==
  {[Address |-> "aws_instance.a", ResourceType |-> "aws_instance", Action |-> a,
    ReplaceTriggers |-> << >>] : a \in ActionLists}
  \cup {[Address |-> "aws_instance.b", ResourceType |-> "aws_instance", Action |-> a,
         ReplaceTriggers |-> <<"ami">>] : a \in ActionLists}

\* PlanResult.DetailedChanges
PlanLists == UNION {[1 .. n -> PlanRecords] : n \in 0 .. MaxPlan}

\* buildChangeReason: the sentence and the attributes it names
buildChangeReason(change) ==
  IF Len(change.ReplaceTriggers) = 0
  THEN [text |-> "Module update requires resource replacement", attrs |-> << >>]
  ELSE IF Len(change.ReplaceTriggers) = 1
  THEN [text |-> "Attribute requires replacement", attrs |-> change.ReplaceTriggers]
  ELSE [text |-> "Attributes require replacement", attrs |-> change.ReplaceTriggers]

\* a categorisation that looks at update before delete
Categorize_UpdateFirst(change) ==
  LET Has(a) == \E i \in 1 .. Len(change.Action) : change.Action[i] = a
  IN IF Has("create") /\ Has("delete") THEN "replace"
     ELSE IF Has("update") THEN "modify"
     ELSE IF Has("delete") THEN "delete"
     ELSE "none"

\* the flags of one loop iteration and the branch "categorize the change" takes
Categorize(change) ==
  LET Has(a) == \E i \in 1 .. Len(change.Action) : change.Action[i] = a
      hasCreate == Has("create")
      hasDelete == Has("delete")
      isUpdate == Has("update")
      isReplace == hasCreate /\ hasDelete
      isDelete == ~isReplace /\ hasDelete
  IN IF isReplace THEN "replace"
     ELSE IF isDelete THEN "delete"
     ELSE IF isUpdate THEN "modify"
     ELSE "none"

\* version.ResourceChange{Address, ResourceType, Action, Reason}; Action is the
\* comma-joined action list, kept as the list
SummaryChange(change) ==
  [Address |-> change.Address, ResourceType |-> change.ResourceType,
   Action |-> change.Action, Reason |-> buildChangeReason(change)]

\* &version.ResourceChangesSummary{HasChanges: false}
NoChangesSummary ==
  [HasChanges |-> FALSE, ResourcesToReplace |-> << >>, ResourcesToDelete |-> << >>,
   ResourcesToModify |-> << >>, TotalReplace |-> 0, TotalDelete |-> 0, TotalModify |-> 0]

\* "for _, change := range planResult.DetailedChanges"
RECURSIVE AnalyzeLoop(_, _)
AnalyzeLoop(changes, summary) ==
  IF changes = << >> THEN summary
  ELSE
    LET change == Head(changes)
        cat == Categorize(change)
        next ==
          IF cat = "replace"
          THEN [summary EXCEPT !.ResourcesToReplace = Append(@, SummaryChange(change)),
                               !.TotalReplace = @ + 1]
          ELSE IF cat = "delete"
          THEN [summary EXCEPT !.ResourcesToDelete = Append(@, SummaryChange(change)),
                               !.TotalDelete = @ + 1]
          ELSE IF cat = "modify"
          THEN [summary EXCEPT !.ResourcesToModify = Append(@, SummaryChange(change)),
                               !.TotalModify = @ + 1]
          ELSE summary
    IN AnalyzeLoop(Tail(changes), next)

\* AnalyzeResourceChanges; p.nil: planResult == nil
AnalyzeResourceChanges(p) ==
  IF p.nil \/ Len(p.DetailedChanges) = 0 THEN NoChangesSummary
  ELSE AnalyzeLoop(p.DetailedChanges, [NoChangesSummary EXCEPT !.HasChanges = TRUE])

\* a nil *version.ResourceChangesSummary
NilSummary == [nil |-> TRUE]

\* a test that also counts modifications as critical
HasCriticalChanges_CountModify(summary) ==
  IF summary = NilSummary THEN FALSE
  ELSE summary.TotalReplace > 0 \/ summary.TotalDelete > 0 \/ summary.TotalModify > 0

\* HasCriticalChanges
HasCriticalChanges(summary) ==
  IF summary = NilSummary THEN FALSE
  ELSE summary.TotalReplace > 0 \/ summary.TotalDelete > 0

\* a plan result, not yet analysed: the summary pointer is still nil
InitPlan ==
  /\ InitChecker
  /\ checker = NoFlags
  /\ vcur = EmptyText
  /\ vlat = EmptyText
  /\ vout = NoOut
  /\ res = NoRes
  /\ prev = NoRes
  /\ batch = NoBatch
  /\ schema = NoSchema
  /\ pr = NoPR
  /\ plan \in {[called |-> FALSE, planResult |-> [nil |-> TRUE, DetailedChanges |-> << >>],
                summary |-> NilSummary, critical |-> "unset"]}
              \cup {[called |-> FALSE, planResult |-> [nil |-> FALSE, DetailedChanges |-> l],
                     summary |-> NilSummary, critical |-> "unset"] : l \in PlanLists}

\* summary := AnalyzeResourceChanges(planResult)
CallAnalyzeResourceChanges ==
  /\ ~plan.called
  /\ plan.critical = "unset"
  /\ plan' = [plan EXCEPT !.called = TRUE,
                          !.summary = AnalyzeResourceChanges(plan.planResult)]
  /\ UNCHANGED <<cacheVars, verVars, prev, batch, schema, pr>>

\* HasCriticalChanges(summary), on the returned summary or on a nil one
CallHasCriticalChanges ==
  /\ plan.critical = "unset"
  /\ plan' = [plan EXCEPT !.critical = IF HasCriticalChanges(plan.summary)
                                       THEN "yes" ELSE "no"]
  /\ UNCHANGED <<cacheVars, verVars, prev, batch, schema, pr>>

NextPlan == CallAnalyzeResourceChanges \/ CallHasCriticalChanges

SpecPlan == InitPlan /\ [][NextPlan]_vars

\* ------------------------------------------ cmd: the pr command's loop body
\* the snapshots fetchRegistrySchema can return for the two versions of a module
PRSnapshots ==
  {sn \in ModuleSchemas :
     /\ ~sn.nil
     /\ DOMAIN sn.Variables \subseteq {"a"}
     /\ DOMAIN sn.Outputs \subseteq {"x"}
     /\ \A n \in DOMAIN sn.Variables : sn.Variables[n].Type = "string"}

\* what init and plan give the loop body: no runner or --skip-plan, a failed init, a
\* failed plan, or a successful plan of one resource change
PRPlans ==
  {[ran |-> o, DetailedChanges |-> << >>] : o \in {"skipped", "initFailed", "planFailed"}}
  \cup {[ran |-> "ok",
         DetailedChanges |-> <<[Address |-> "aws_instance.a", ResourceType |-> "aws_instance",
                                Action |-> a, ReplaceTriggers |-> << >>]>>] :
          a \in {<<"update">>, <<"delete", "create">>, <<"delete">>, <<"create">>}}

\* a nil *SchemaChanges
NilChanges == [nil |-> TRUE]

\* a verdict whose flag also follows the advisory analysis
PickUpdate_Advisory(aiOut) ==
  /\ pr.stage = "none"
  /\ res.kind \in {"registry", "git"}
  /\ ~res.err
  /\ res.info.IsOutdated
  /\ pr' = [stage |-> "resolved",
            UpdateType |-> res.info.UpdateType,
            HasBreakingChange |-> res.info.HasBreakingChange \/ aiOut = "breaking",
            BreakingChangeDetails |-> res.info.BreakingChangeDetails,
            AIAnalysis |-> IF aiOut = "error" THEN "nil" ELSE aiOut,
            SchemaChanges |-> NilChanges,
            ResourceChanges |-> NilSummary]
  /\ UNCHANGED <<cacheVars, verVars, prev, batch, schema, plan>>

\* "updates = append(updates, updateInfo)" in Check, then "for i, update := range
\* updates": the verdict of an outdated module; the advisory analysis is attached
\* when an analyzer is set and did not fail
PickUpdate(aiOut) ==
  /\ pr.stage = "none"
  /\ res.kind \in {"registry", "git"}
  /\ ~res.err
  /\ res.info.IsOutdated
  /\ pr' = [stage |-> "resolved",
            UpdateType |-> res.info.UpdateType,
            HasBreakingChange |-> res.info.HasBreakingChange,
            BreakingChangeDetails |-> res.info.BreakingChangeDetails,
            AIAnalysis |-> IF aiOut = "error" THEN "nil" ELSE aiOut,
            SchemaChanges |-> NilChanges,
            ResourceChanges |-> NilSummary]
  /\ UNCHANGED <<cacheVars, verVars, prev, batch, schema, plan>>

\* a schema step that overwrites the reason instead of extending it
SchemaStep_Overwrite(fetched, current, latest, ordV, ordO) ==
  /\ pr.stage = "resolved"
  /\ IF res.kind = "registry" /\ fetched
     THEN \E schemaChanges \in {compareSchemaStructures(current, latest, ordV, ordO)} :
            pr' = [pr EXCEPT
                     !.stage = "schema",
                     !.SchemaChanges = schemaChanges,
                     !.HasBreakingChange = @ \/ HasBreakingSchemaChanges(schemaChanges),
                     !.BreakingChangeDetails =
                        IF HasBreakingSchemaChanges(schemaChanges)
                        THEN <<[signal |-> "schema", first |-> TRUE]>>
                        ELSE @]
     ELSE pr' = [pr EXCEPT !.stage = "schema"]
  /\ UNCHANGED <<cacheVars, verVars, prev, batch, schema, plan>>

\* "Perform schema comparison": CompareSchemas gives nil for a module that is not a
\* registry module or when a snapshot could not be fetched
SchemaStep(fetched, current, latest, ordV, ordO) ==
  /\ pr.stage = "resolved"
  /\ IF res.kind = "registry" /\ fetched
     THEN \E schemaChanges \in {compareSchemaStructures(current, latest, ordV, ordO)} :
            pr' = [pr EXCEPT
                     !.stage = "schema",
                     !.SchemaChanges = schemaChanges,
                     !.HasBreakingChange = @ \/ HasBreakingSchemaChanges(schemaChanges),
                     !.BreakingChangeDetails =
                        IF HasBreakingSchemaChanges(schemaChanges)
                        THEN Append(@, [signal |-> "schema", first |-> (@ = << >>)])
                        ELSE @]
     ELSE pr' = [pr EXCEPT !.stage = "schema"]
  /\ UNCHANGED <<cacheVars, verVars, prev, batch, schema, plan>>

\* a plan step that takes the plan's verdict as the flag
PlanStep_Assign(p) ==
  /\ pr.stage = "schema"
  /\ IF p.ran = "ok"
     THEN \E summary \in {AnalyzeResourceChanges([nil |-> FALSE,
                                                  DetailedChanges |-> p.DetailedChanges])} :
            pr' = [pr EXCEPT
                     !.stage = "plan",
                     !.ResourceChanges = summary,
                     !.HasBreakingChange = HasCriticalChanges(summary),
                     !.BreakingChangeDetails =
                        IF HasCriticalChanges(summary)
                        THEN Append(@, [signal |-> "resource", first |-> (@ = << >>)])
                        ELSE @]
     ELSE pr' = [pr EXCEPT !.stage = "plan"]
  /\ UNCHANGED <<cacheVars, verVars, prev, batch, schema, plan>>

\* "Run plan to validate", then AnalyzeResourceChanges and HasCriticalChanges on a
\* successful plan
PlanStep(p) ==
  /\ pr.stage = "schema"
  /\ IF p.ran = "ok"
     THEN \E summary \in {AnalyzeResourceChanges([nil |-> FALSE,
                                                  DetailedChanges |-> p.DetailedChanges])} :
            pr' = [pr EXCEPT
                     !.stage = "plan",
                     !.ResourceChanges = summary,
                     !.HasBreakingChange = @ \/ HasCriticalChanges(summary),
                     !.BreakingChangeDetails =
                        IF HasCriticalChanges(summary)
                        THEN Append(@, [signal |-> "resource", first |-> (@ = << >>)])
                        ELSE @]
     ELSE pr' = [pr EXCEPT !.stage = "plan"]
  /\ UNCHANGED <<cacheVars, verVars, prev, batch, schema, plan>>

\* prCreator.CreatePR(ctx, update, planResult): update is passed by value
CreatePR ==
  /\ pr.stage = "plan"
  /\ pr' = [pr EXCEPT !.stage = "created"]
  /\ UNCHANGED <<cacheVars, verVars, prev, batch, schema, plan>>

NextPR ==
  \/ \E m \in RegistryModules : \E r \in Responses(UpVersions) : CheckRegistryModule(m, r)
  \/ \E m \in GitModules : \E r \in Responses(UpTags) : CheckGitModule(m, r)
  \/ \E a \in AIOutcomes : PickUpdate(a)
  \/ \E f \in BOOLEAN, c \in PRSnapshots, l \in PRSnapshots,
        ordV \in Orders(VarNames), ordO \in Orders(OutNames) : SchemaStep(f, c, l, ordV, ordO)
  \/ \E p \in PRPlans : PlanStep(p)
  \/ CreatePR

SpecPR == InitCheck /\ [][NextPR]_vars

\* =================================================================== claims
Writers == {t \in Callers : pc[t] \in {"Set", "Clear"}}
Readers == {t \in Callers : pc[t] \in {"Get", "Stats"}}

\* what Get(k) must return according to the history of Set and Clear calls
RefGet(k) ==
  IF k \in DOMAIN lastSet /\ now - lastSet[k].at <= ttl
  THEN [tags |-> lastSet[k].tags, found |-> TRUE]
  ELSE [tags |-> << >>, found |-> FALSE]

\* C1: every Get(k) returns (tags of the most recent Set(k,_), true) exactly when
\* such a Set happened after the last Clear and at most TTL ago; (nil, false) otherwise.
C1_GetContract ==
  [][\A t \in Callers : \A k \in Repos : GetReturn(t, k) => ret' = RefGet(k)]_vars

\* a Get found an entry that was set again after the clock had passed the TTL
C1_Witness ==
  /\ ret.found
  /\ now > ttl
  /\ \E k \in DOMAIN lastSet : lastSet[k].tags = ret.tags /\ lastSet[k].at = now

\* C2: on a persistent cache, once Clear has returned nil and no Set has run since,
\* repository-cache.json is absent, whatever the pending save goroutines do.
C2_FileAbsentAfterClear ==
  (~memoryOnly /\ cleared) => ~files[cacheFile].exists

\* C3: on a persistent cache whose storage calls succeed, once no save goroutine is
\* pending the file holds exactly the in-memory map, and a cache loaded from it
\* answers every Get with the tags of the most recent Set (unless expired).
C3_RoundTrip ==
  (~memoryOnly /\ PendingSaves = 0) =>
     /\ files[cacheFile].exists => Unmarshal(files[cacheFile].data) = entries
     /\ ~files[cacheFile].exists => entries = EmptyMap
     /\ \A k \in Repos : Get(load(files[cacheFile], now), k, now) = RefGet(k)

\* both repositories were set at different times and every save has completed
C3_Witness ==
  /\ ~memoryOnly /\ PendingSaves = 0
  /\ DOMAIN entries = Repos
  /\ entries["r1"].CachedAt # entries["r2"].CachedAt
  /\ entries["r1"].Tags # entries["r2"].Tags
  /\ files[cacheFile].exists

\* C4: Set does not wait for its save: no save serialises while a Set holds the write
\* lock, Set returns with the save it started still not started, and a failed write
\* changes neither the map nor any caller, so an unexpired entry is still returned.
C4_SetIndependentOfSave ==
  /\ [](\A t \in Callers : pc[t] = "Set" => savesLocked = 0)
  /\ [](\A k \in DOMAIN lastSet :
          now - lastSet[k].at <= ttl =>
            Get(entries, k, now) = [tags |-> lastSet[k].tags, found |-> TRUE])
  /\ [][\A t \in Callers : \A k \in Repos : \A tg \in TagLists :
          (~memoryOnly /\ SetReturn(t, k, tg)) =>
             /\ pc'[t] = "idle"
             /\ savesSpawned' = savesSpawned + 1
             /\ files' = files]_vars
  /\ [][\A o \in {"openfail", "writefail"} :
          SaveWrite(o) => (entries' = entries /\ pc' = pc /\ ret' = ret)]_vars

\* a write has failed, the file is unusable, and the entry is still served
C4_Witness ==
  /\ files[cacheFile].corrupt
  /\ \E k \in DOMAIN lastSet : Get(entries, k, now).found
  /\ PendingSaves = 0

\* C5: a Set or Clear is never inside its critical section together with any other
\* Get, Set, Clear, Stats or save; the lock word agrees with who is inside, so a
\* caller is only ever blocked by someone who can leave (no deadlock).
C5_RaceFree ==
  /\ Cardinality(Writers) <= 1
  /\ Writers # {} => (Readers = {} /\ savesLocked = 0)
  /\ rw.w = (Writers # {})
  /\ rw.r = Cardinality(Readers) + savesLocked
  /\ \A t \in Callers :
       (pc[t] = "idle" /\ Writers = {} /\ Readers = {} /\ savesLocked = 0)
          => ENABLED Lock(t, "Clear")

\* two callers and a save goroutine read at the same time
C5_Witness ==
  /\ Readers = Callers
  /\ savesLocked >= 1

\* C6: a memory-only cache never makes a storage call.
C6_MemoryOnlyNoStorage ==
  memoryOnly => ~fsOps

\* C7: a newly constructed persistent cache holds exactly the stored entries whose
\* own TTL has not elapsed since their own captured time, with that captured time and
\* TTL unchanged; the others are not returned by Get.
C7_LoadKeepsUnexpired ==
  [][\A n \in TTLs :
       Restart(n, FALSE) =>
         LET f == files[cacheFile]
             stored == IF f.exists /\ ~f.corrupt THEN f.data ELSE EmptyMap
             keep == {k \in DOMAIN stored : now - stored[k].cached_at <= stored[k].ttl}
         IN /\ DOMAIN entries' = keep
            /\ \A k \in keep :
                 /\ entries'[k].Tags = stored[k].tags
                 /\ entries'[k].CachedAt = stored[k].cached_at
                 /\ entries'[k].TTL = stored[k].ttl
                 /\ Get(entries', k, now') = [tags |-> stored[k].tags, found |-> TRUE]
            /\ \A k \in Repos \ keep : ~Get(entries', k, now').found]_vars

\* a fresh cache kept an entry under a TTL other than its own and dropped an expired one
C7_Witness ==
  /\ ~memoryOnly
  /\ lastSet = EmptyMap
  /\ \E k \in DOMAIN entries : entries[k].TTL # ttl
  /\ \E k \in DOMAIN files[cacheFile].data : k \notin DOMAIN entries

\* ---- C8
\* the first of major, minor, patch in which the two versions differ names the type
\* when latest is the larger there; no difference, or latest smaller there: unknown
RefType(cs, ls) ==
  IF Len(cs) < 3 \/ Len(ls) < 3 THEN "unknown"
  ELSE LET diff == {i \in 1 .. 3 : cs[i] # ls[i]}
       IN IF diff = {} THEN "unknown"
          ELSE LET f == CHOOSE i \in diff : \A k \in diff : i <= k
               IN IF ls[f] > cs[f] THEN <<"major", "minor", "patch">>[f]
                  ELSE "unknown"

\* a Version value holding the numbers sg and nothing else
VersionOf(sg) == [err |-> FALSE, segments |-> sg, pre |-> ""]

\* C8: detectUpdateType(current, latest) is the reference classification of the
\* first three numbers of the two versions (major if latest's major is larger; else
\* minor if the majors agree and latest's minor is larger; else patch if majors and
\* minors agree and latest's patch is larger; else unknown), numbers after the third
\* play no part, and a version value with fewer than three numbers on either side
\* gives unknown.
C8_DetectUpdateTypeReference ==
  /\ vout.type # "none" =>
       /\ vout.type = RefType(Segments(NewVersion(vcur)), Segments(NewVersion(vlat)))
       /\ vout.type = RefType(SubSeq(Segments(NewVersion(vcur)), 1, 3),
                              SubSeq(Segments(NewVersion(vlat)), 1, 3))
  /\ \A sg \in {x \in SegLists : Len(x) < 3} :
       /\ detectUpdateType(VersionOf(sg), NewVersion(vlat)) = "unknown"
       /\ detectUpdateType(NewVersion(vcur), VersionOf(sg)) = "unknown"

\* a patch update found between two versions written with four numbers
C8_Witness ==
  /\ vout.type = "patch"
  /\ Len(vcur.segs) = 4
  /\ Len(vlat.segs) = 4

\* ---- C9
\* the place of a version in the version order, as one number
Key(ver) ==
  LET B == MaxNum + 1
      sg == ver.segments
  IN (((SegAt(sg, 1) * B + SegAt(sg, 2)) * B + SegAt(sg, 3)) * B + SegAt(sg, 4)) * 2
     + (IF ver.pre = "" THEN 1 ELSE 0)

\* C9: shouldUpdate(current, latest) is false when current >= latest; when current
\* is below latest it is, under patchOnly, true exactly if major and minor agree;
\* under minorOnly true only if the majors agree (exactly if, when patchOnly is
\* off); and true when neither flag is set.
C9_ShouldUpdatePolicy ==
  vout.update # "none" =>
    LET cur == NewVersion(vcur)
        lat == NewVersion(vlat)
        ge == Key(cur) >= Key(lat)
        yes == vout.update = "yes"
        sameMajor == cur.segments[1] = lat.segments[1]
        sameMinor == cur.segments[2] = lat.segments[2]
    IN /\ ge => ~yes
       /\ (~ge /\ checker.patchOnly) => (yes <=> (sameMajor /\ sameMinor))
       /\ (~ge /\ checker.minorOnly) => (yes => sameMajor)
       /\ (~ge /\ ~checker.patchOnly /\ checker.minorOnly) => (yes <=> sameMajor)
       /\ (~ge /\ ~checker.patchOnly /\ ~checker.minorOnly) => yes

\* patchOnly holds back an update to a larger minor number
C9_Witness ==
  /\ checker.patchOnly
  /\ vout.update = "no"
  /\ Key(NewVersion(vcur)) < Key(NewVersion(vlat))
  /\ NewVersion(vcur).segments[1] = NewVersion(vlat).segments[1]

\* ---- C10
\* the dependency of the last resolution declares no version: an empty constraint
\* for a registry module or a provider, no ref= parameter for a git module
NoDeclaredVersion ==
  \/ res.kind \in {"registry", "provider"} /\ res.Version = EmptyText
  \/ res.kind = "git" /\ res.Source.ref = EmptyText

\* C10: a resolution that succeeds for a dependency declaring no version reports
\* outdated = false, update type unknown, and the literal "latest" as latest version.
C10_NoVersionMeansLatest ==
  (res.kind # "none" /\ ~res.err /\ NoDeclaredVersion) =>
    /\ res.info.IsOutdated = FALSE
    /\ res.info.UpdateType = "unknown"
    /\ res.info.LatestVersion = Lit("latest")

C12_IgnoreExactNameOnly ==
  /\ [](batch.fn = "Check" =>
         /\ \A j \in 1 .. Len(batch.log) :
              IF batch.modules[j].Name \in batch.ignoreModules
              THEN /\ batch.log[j].called = "none"
                   /\ ~batch.log[j].cacheRead
                   /\ ~batch.log[j].remote
              ELSE batch.modules[j].SourceType \in {"registry", "git"} =>
                     batch.log[j].called = batch.modules[j].SourceType
         /\ \A k \in 1 .. Len(batch.updates) :
              batch.updates[k].Module.Name \notin batch.ignoreModules)
  /\ [][(batch.fn = "Check" /\ batch'.i = batch.i + 1
         /\ batch.modules[batch.i].Name \in batch.ignoreModules) =>
          (entries' = entries /\ batch'.updates = batch.updates)]_vars

\* "vpc" is ignored, and "vpc-extended" was looked up and reported in the same call
C12_Witness ==
  /\ batch.done
  /\ batch.ignoreModules = {<<"vpc">>}
  /\ Len(batch.modules) = 2
  /\ batch.modules[1].Name = <<"vpc">>
  /\ batch.modules[1].SourceType = "git"
  /\ batch.modules[2].Name = <<"vpc", "extended">>
  /\ batch.log[2].remote
  /\ Len(batch.updates) = 1

\* ---- C13
\* position j of the input yields a verdict that belongs in the result
Reportable(j) ==
  /\ batch.modules[j].SourceType \in {"registry", "git"}
  /\ batch.modules[j].Name \notin batch.ignoreModules
  /\ ~batch.log[j].err
  /\ batch.log[j].info.IsOutdated

\* the verdicts of the reportable positions up to n, in input order
RECURSIVE ReportedUpTo(_)
ReportedUpTo(n) ==
  IF n = 0 THEN << >>
  ELSE ReportedUpTo(n - 1)
       \o (IF Reportable(n)
           THEN <<[Module |-> batch.modules[n], info |-> batch.log[n].info]>>
           ELSE << >>)

\* C13: the result of Check is, in input order, exactly the outdated verdicts of the
\* registry and git modules that are not ignored and resolved without error; local
\* and unknown-kind modules run no check function and ask no upstream; no returned
\* verdict has outdated = false.
C13_CheckResult ==
  batch.fn = "Check" =>
    /\ [k \in 1 .. Len(batch.updates) |->
          [Module |-> batch.updates[k].Module, info |-> batch.updates[k].info]]
       = ReportedUpTo(Len(batch.log))
    /\ \A j \in 1 .. Len(batch.log) :
         batch.modules[j].SourceType \notin {"registry", "git"} =>
           /\ batch.log[j].called = "none"
           /\ ~batch.log[j].remote
           /\ ~batch.log[j].cacheRead
    /\ \A k \in 1 .. Len(batch.updates) : batch.updates[k].info.IsOutdated

\* a returned result holding the update of the second module; the first was up to date
C13_Witness ==
  /\ batch.fn = "Check"
  /\ batch.done
  /\ Len(batch.modules) = 2
  /\ batch.log[1].called = "registry"
  /\ ~batch.log[1].err
  /\ ~batch.log[1].info.IsOutdated
  /\ batch.log[2].called = "git"
  /\ Len(batch.updates) = 1

\* ---- C14
\* an earlier resolution fetched tags for this key and they are within the TTL
TagsFresh(key) ==
  /\ key \in DOMAIN lastSet
  /\ now - lastSet[key].at <= ttl

\* C14: a git resolution whose owner/repo had a non-empty tag list fetched by an
\* earlier resolution within the TTL makes no remote call, leaves the cache as it
\* is and computes its verdict from the tags fetched then; otherwise (no entry, or
\* an expired one) it calls the remote, and a non-empty answer is stored under the
\* key with the current time.
C14_CacheBeforeRemote ==
  [][(res.kind = "none" /\ res'.kind = "git" /\ ~parseGitSource(res'.Source).err) =>
       LET key == RepoKey(res'.Source.owner, res'.Source.repo)
           module == ModuleInfo("mod", "git", res'.Source, res'.Version)
       IN IF TagsFresh(key)
          THEN LET fromTags == checkGitModule(checker, module,
                                 [status |-> "ok", versions |-> lastSet[key].tags],
                                 EmptyMap, now, ttl)
               IN /\ ~res'.remote
                  /\ entries' = entries
                  /\ Len(lastSet[key].tags) > 0
                  /\ res'.err = fromTags.err
                  /\ res'.info = fromTags.info
          ELSE /\ res'.remote
               /\ (res'.resp.status = "ok" /\ Len(res'.resp.versions) > 0) =>
                    /\ key \in DOMAIN entries'
                    /\ entries'[key].Tags = res'.resp.versions
                    /\ entries'[key].CachedAt = now]_vars

\* a verdict computed from cached tags one clock unit after they were fetched
C14_Witness ==
  /\ res.kind = "git"
  /\ ~res.remote
  /\ ~res.err
  /\ now = 1
  /\ \E k \in DOMAIN entries : entries[k].CachedAt = 0

\* ---- C15
\* C15: resolving the same dependency a second time, with the same policy flags and
\* the upstream answering as before, returns the same error and the same verdict
\* (current, latest, outdated, update type, breaking flag, details, changelog); so
\* does a git resolution served from the tag cache after one served from the remote.
C15_Idempotent ==
  prev.kind # "none" =>
    /\ res.kind = prev.kind
    /\ res.err = prev.err
    /\ res.info = prev.info

\* an outdated git module resolved from the remote and then again from the cache
C15_Witness ==
  /\ prev.kind = "git"
  /\ prev.remote
  /\ ~res.remote
  /\ ~res.err
  /\ res.info.IsOutdated
  /\ res.info = prev.info

\* ---- C16
\* the list the last resolution worked on: the upstream answer, or for a git module
\* served from the cache the tags stored there
UpstreamList ==
  IF res.kind = "git" /\ ~res.remote
  THEN LET key == RepoKey(res.Source.owner, res.Source.repo)
       IN IF key \in DOMAIN entries THEN entries[key].Tags ELSE << >>
  ELSE res.resp.versions

\* the entries of the list that parse as versions (tags without their leading "v")
\* and, with skipPrerelease, are no prereleases
Survivors ==
  LET parsed == {NewVersion(IF res.kind = "git" THEN TrimPrefixV(UpstreamList[i])
                            ELSE UpstreamList[i]) : i \in 1 .. Len(UpstreamList)}
  IN {v \in parsed : ~v.err /\ ~(checker.skipPrerelease /\ v.pre # "")}

\* a precedes b in semantic-version precedence
Precedes(a, b) ==
  \/ \E i \in 1 .. 4 :
       /\ \A k \in 1 .. (i - 1) : SegAt(a.segments, k) = SegAt(b.segments, k)
       /\ SegAt(a.segments, i) < SegAt(b.segments, i)
  \/ /\ \A k \in 1 .. 4 : SegAt(a.segments, k) = SegAt(b.segments, k)
     /\ a.pre # ""
     /\ b.pre = ""

\* the resolution got hold of a version list: it was not stopped by a malformed
\* source or a failed upstream call
HasList ==
  /\ res.kind # "none"
  /\ \/ res.remote /\ res.resp.status = "ok"
     \/ res.kind = "git" /\ ~res.remote /\ ~parseGitSource(res.Source).err

\* the version the resolver took as latest, where it recorded one
Chosen ==
  IF res.err THEN NewVersion(res.info.LatestVersion)
  ELSE NewVersion(TrimPrefixV(res.info.ChangelogURL.version))

C17_UpdateTypeInEnum ==
  (res.kind # "none" /\ ~res.err) =>
    res.info.UpdateType \in {"major", "minor", "patch", "unknown"}

\* ---- C18
\* the names listed in one category of a comparison
NamesIn(list) == {list[i].Name : i \in 1 .. Len(list)}

\* a category lists no name twice
NoRepeat(list) == Cardinality(NamesIn(list)) = Len(list)

C19_HasChangesIffBreaking ==
  schema.called =>
    LET ch == schema.changes
    IN /\ ch.HasChanges <=> \/ ch.AddedRequiredVars # << >>
                            \/ ch.RemovedVars # << >>
                            \/ ch.ChangedVarTypes # << >>
                            \/ ch.RemovedOutputs # << >>
       /\ schema.breaking # "unset" => (schema.breaking = "yes" <=> ch.HasChanges)
       /\ (schema.current.nil \/ schema.latest.nil) =>
            /\ ~ch.HasChanges
            /\ ch = EmptyChanges

\* only outputs were added: nothing is flagged
C19_Witness ==
  /\ schema.called
  /\ Len(schema.changes.AddedOutputs) = 2
  /\ ~schema.changes.HasChanges
  /\ schema.breaking = "no"

\* ---- C20
\* the bucket the action set S of a record calls for
BucketOf(S) ==
  IF {"create", "delete"} \subseteq S THEN "replace"
  ELSE IF "delete" \in S THEN "delete"
  ELSE IF "update" \in S THEN "modify"
  ELSE "none"

ActionSet(change) == {change.Action[i] : i \in 1 .. Len(change.Action)}

\* addresses and action lists of the input records whose action set calls for b
ExpectedBucket(b) ==
  LET sel == SelectSeq(plan.planResult.DetailedChanges,
                       LAMBDA c : BucketOf(ActionSet(c)) = b)
  IN [i \in 1 .. Len(sel) |-> <<sel[i].Address, sel[i].Action>>]

Listed(list) == [i \in 1 .. Len(list) |-> <<list[i].Address, list[i].Action>>]

\* C20: each plan record is in the one bucket its action set calls for - replace
\* for create and delete together, delete for delete without create, modify for
\* update with neither of those - or in none; each bucket lists its records in input
\* order and its total counts them.
C20_BucketsByActionSet ==
  plan.called =>
    LET sm == plan.summary
    IN /\ Listed(sm.ResourcesToReplace) = ExpectedBucket("replace")
       /\ Listed(sm.ResourcesToDelete) = ExpectedBucket("delete")
       /\ Listed(sm.ResourcesToModify) = ExpectedBucket("modify")
       /\ sm.TotalReplace = Len(sm.ResourcesToReplace)
       /\ sm.TotalDelete = Len(sm.ResourcesToDelete)
       /\ sm.TotalModify = Len(sm.ResourcesToModify)
       /\ sm.TotalReplace + sm.TotalDelete + sm.TotalModify
            <= Len(plan.planResult.DetailedChanges)

\* a plan of a replacement (delete, create) and a creation: one record in replace,
\* the other in no bucket
C20_Witness ==
  /\ plan.called
  /\ Len(plan.planResult.DetailedChanges) = 2
  /\ plan.planResult.DetailedChanges[1].Action = <<"delete", "create">>
  /\ plan.planResult.DetailedChanges[2].Action = <<"create">>
  /\ plan.summary.TotalReplace = 1
  /\ plan.summary.TotalDelete = 0
  /\ plan.summary.TotalModify = 0

\* ---- C21
\* C21: the summary of an analysed plan has HasChanges exactly when some record
\* was put in the replace, delete or modify bucket.
C21_HasChangesIffClassified ==
  plan.called =>
    (plan.summary.HasChanges <=>
       plan.summary.TotalReplace + plan.summary.TotalDelete
         + plan.summary.TotalModify > 0)

\* ---- C22
PureUpdates ==
  \A i \in 1 .. Len(plan.planResult.DetailedChanges) :
    plan.planResult.DetailedChanges[i].Action = <<"update">>

\* C22: HasCriticalChanges answers true exactly for a non-nil summary with a
\* replacement or a deletion, that is for an analysed plan holding a record with a
\* delete action; a plan of pure updates is never critical.
C22_CriticalIffReplaceOrDelete ==
  plan.critical # "unset" =>
    /\ plan.critical = "yes" <=>
         /\ plan.summary # NilSummary
         /\ plan.summary.TotalReplace > 0 \/ plan.summary.TotalDelete > 0
    /\ plan.called =>
         (plan.critical = "yes" <=>
            \E i \in 1 .. Len(plan.planResult.DetailedChanges) :
              "delete" \in ActionSet(plan.planResult.DetailedChanges[i]))
    /\ plan.called /\ PureUpdates => plan.critical = "no"

\* two pure updates, both counted as modifications, judged not critical
C22_Witness ==
  /\ plan.called
  /\ plan.critical = "no"
  /\ PureUpdates
  /\ plan.summary.TotalModify = 2

\* ---- C23
\* C23: along the processing of one update - the verdict of the resolution, then
\* the schema step, the plan step and PR creation - a breaking flag that is true
\* stays true.
C23_BreakingMonotone ==
  [][/\ (pr.stage = "none" /\ pr'.stage # "none" /\ res.info.HasBreakingChange)
          => pr'.HasBreakingChange
     /\ (pr.stage # "none" /\ pr'.stage # "none" /\ pr.HasBreakingChange)
          => pr'.HasBreakingChange]_vars

\* a major upgrade whose plan was analysed and found not critical, handed to PR
\* creation still flagged
C23_Witness ==
  /\ pr.stage = "created"
  /\ pr.UpdateType = "major"
  /\ pr.ResourceChanges # NilSummary
  /\ ~HasCriticalChanges(pr.ResourceChanges)
  /\ pr.HasBreakingChange

\* ---- C24
SchemaSignal ==
  /\ pr.SchemaChanges # NilChanges
  /\ \/ pr.SchemaChanges.AddedRequiredVars # << >>
     \/ pr.SchemaChanges.RemovedVars # << >>
     \/ pr.SchemaChanges.ChangedVarTypes # << >>
     \/ pr.SchemaChanges.RemovedOutputs # << >>

ResourceSignal ==
  /\ pr.ResourceChanges # NilSummary
  /\ pr.ResourceChanges.TotalReplace > 0 \/ pr.ResourceChanges.TotalDelete > 0

\* the version a verdict names, parsed
Named(text) == NewVersion(TrimPrefixV(text))

\* C24: the flag of an update handed to PR creation is (update type major) or (a
\* schema comparison was obtained and has a breaking category) or (a resource
\* summary was obtained and is critical); it is a function of these three alone, so
\* the advisory analysis has no part in it; a larger major version always flags.
C24_BreakingIsThreeSignals ==
  pr.stage = "created" =>
    /\ pr.HasBreakingChange <=> (pr.UpdateType = "major" \/ SchemaSignal \/ ResourceSignal)
    /\ Segments(Named(res.info.LatestVersion))[1]
         > Segments(Named(res.info.CurrentVersion))[1] => pr.HasBreakingChange

\* an update with an advisory "breaking" analysis and no other signal is handed to
\* PR creation unflagged
C24_Witness ==
  /\ pr.stage = "created"
  /\ pr.AIAnalysis = "breaking"
  /\ pr.SchemaChanges # NilChanges
  /\ pr.ResourceChanges # NilSummary
  /\ ~pr.HasBreakingChange

\* ---- C25
IsPrefix(a, b) == Len(a) <= Len(b) /\ SubSeq(b, 1, Len(a)) = a

\* the signal a sentence of the reason speaks of
SignalOf(sentence) ==
  IF "signal" \in DOMAIN sentence THEN sentence.signal ELSE "major"

\* C25: each step leaves the reason text it found as a prefix of the text it hands
\* on, and the text of an update handed to PR creation has one sentence per
\* triggered signal, in the order major, schema, resource.
C25_ReasonAppendOnly ==
  /\ [][(pr.stage # "none" /\ pr'.stage # "none")
          => IsPrefix(pr.BreakingChangeDetails, pr'.BreakingChangeDetails)]_vars
  /\ [][(pr.stage = "none" /\ pr'.stage # "none")
          => IsPrefix(res.info.BreakingChangeDetails, pr'.BreakingChangeDetails)]_vars
  /\ [](pr.stage = "created" =>
          [i \in 1 .. Len(pr.BreakingChangeDetails) |->
             SignalOf(pr.BreakingChangeDetails[i])]
          = (IF pr.UpdateType = "major" THEN <<"major">> ELSE << >>)
            \o (IF SchemaSignal THEN <<"schema">> ELSE << >>)
            \o (IF ResourceSignal THEN <<"resource">> ELSE << >>))

\* all three signals triggered: three sentences
C25_Witness ==
  /\ pr.stage = "created"
  /\ Len(pr.BreakingChangeDetails) = 3
  /\ pr.UpdateType = "major"
  /\ SchemaSignal
  /\ ResourceSignal

\* ---- C26
\* the update types each named filter lets through
FilterTable ==
  [f \in {"all", "major-only", "critical-only", "minor-and-above"} |->
     IF f = "all" THEN {"major", "minor", "patch", "unknown"}
     ELSE IF f = "minor-and-above" THEN {"major", "minor"}
     ELSE {"major"}]

\* C26: shouldDisplayUpdate follows the table: all passes every update type,
\* major-only and critical-only pass major alone, minor-and-above passes major and
\* minor and rejects patch and unknown.
C26_DisplayFilterTable ==
  (vout.shown # "none" /\ vout.filter \in DOMAIN FilterTable) =>
    (vout.shown = "yes" <=> vout.type \in FilterTable[vout.filter])

\* a patch update hidden by minor-and-above
C26_Witness ==
  /\ vout.type = "patch"
  /\ vout.filter = "minor-and-above"
  /\ vout.shown = "no"

\* ---- C27
\* C27: at any time at most one save goroutine of a persistent cache is between
\* taking the read lock and finishing its write of the backing file.
C27_AtMostOneSaveInFlight == savesLocked <= 1

\* ---- C28
\* C28: on every verdict a resolution returns without error, outdated under
\* patchOnly means an update type of patch or unknown, outdated under minorOnly
\* means an update type other than major; so under either policy no outdated
\* verdict - the ones Check returns - carries the flag of a major upgrade.
C28_PolicyMatchesUpdateType ==
  (res.kind # "none" /\ ~res.err /\ res.info.IsOutdated) =>
    /\ checker.patchOnly => res.info.UpdateType \in {"patch", "unknown"}
    /\ checker.minorOnly => res.info.UpdateType # "major"
    /\ (checker.patchOnly \/ checker.minorOnly) => ~res.info.HasBreakingChange

\* under patchOnly, a prerelease found outdated against its release: update type
\* unknown
C28_Witness ==
  /\ res.kind # "none"
  /\ ~res.err
  /\ checker.patchOnly
  /\ res.info.IsOutdated
  /\ res.info.UpdateType = "unknown"

\* ---- C29
\* C29: on the verdict of a resolution and after each step of processing an update
\* the breaking flag is true exactly when the reason text is not empty.
C29_FlagIffReason ==
  /\ (res.kind \in {"registry", "git"} /\ ~res.err) =>
       (res.info.HasBreakingChange <=> res.info.BreakingChangeDetails # << >>)
  /\ pr.stage # "none" =>
       (pr.HasBreakingChange <=> pr.BreakingChangeDetails # << >>)

\* an update flagged by the plan step alone, with the one sentence of that step
C29_Witness ==
  /\ pr.stage = "plan"
  /\ pr.UpdateType # "major"
  /\ ~SchemaSignal
  /\ pr.HasBreakingChange
  /\ Len(pr.BreakingChangeDetails) = 1

\* ---- C30
\* C30: a resolution of a git module changes the tag cache only when it asked the
\* remote and the remote answered with at least one tag; a resolution that fails on
\* its source, on the remote call or on an empty tag list, and one served from the
\* cache, leave every entry as it was.
C30_CacheWrittenOnlyAfterFetch ==
  [][(res.kind = "none" /\ res'.kind = "git") =>
       /\ entries' # entries =>
            /\ res'.remote
            /\ res'.resp.status = "ok"
            /\ Len(res'.resp.versions) >= 1
       /\ ~res'.remote => entries' = entries
       /\ (res'.remote /\ res'.resp.status # "ok") => entries' = entries
       /\ (res'.remote /\ res'.resp.versions = << >>) => entries' = entries]_vars

\* a failed remote call while an expired entry is in the cache: the entry stays
C30_Witness ==
  /\ res.kind = "git"
  /\ res.remote
  /\ res.resp.status = "error"
  /\ DOMAIN entries # {}

TypeOK ==
  /\ memoryOnly \in BOOLEAN
  /\ ttl \in TTLs
  /\ now \in 0..MaxTime
  /\ rw.r \in 0..(Cardinality(Callers) + MaxSaves)
  /\ DOMAIN entries \subseteq Repos
====
